---- MODULE Spec2Model ----
(***************************************************************************)
(* Model of the read path of the Genesis DB client (src/src/client.ts and  *)
(* its compiled build src/unnamed/part_000): streamEvents, q and           *)
(* observeEvents decoding a newline-delimited JSON byte stream.            *)
(*                                                                         *)
(* A text is a sequence of one-character strings. A JSON object text is    *)
(* "{", one member glyph standing for the member list, "}"; JSON           *)
(* whitespace may surround the tokens.                                     *)
(***************************************************************************)
EXTENDS Integers, Sequences, FiniteSets, TLC

\* ------------------------------------------------------------------ bounds

\* Largest number of lines in the response bodies that are built from every
\* combination of line kinds.
MaxLines == 2

\* Largest number of exceptions the consumer throws into one generator.
MaxInjected == 1

\* ------------------------------------------------------- string primitives

NL == "\n"

\* The characters String.prototype.trim removes and JSON.parse skips.
Whitespace == {" ", "\r", "\t", NL}

\* String.prototype.indexOf for a single character: 0-based, -1 when absent.
indexOf(s, c) ==
  IF \E i \in 1..Len(s) : s[i] = c
  THEN (CHOOSE i \in 1..Len(s) : s[i] = c /\ \A j \in 1..(i - 1) : s[j] # c) - 1
  ELSE -1

\* String.prototype.slice(begin, end): 0-based, end exclusive.
slice(s, begin, end) == SubSeq(s, begin + 1, end)

\* sliceFrom that starts one character late: buffer.slice(newlineIndex + 2).
sliceFromSkips(s, begin) == SubSeq(s, begin + 2, Len(s))

\* String.prototype.slice(begin): to the end of the string.
sliceFrom(s, begin) == SubSeq(s, begin + 1, Len(s))

\* trim that removes trailing whitespace only (String.prototype.trimEnd).
trimEnd(s) ==
  LET keep == {i \in 1..Len(s) : s[i] \notin Whitespace}
  IN IF keep = {} THEN <<>>
     ELSE SubSeq(s, 1, CHOOSE i \in keep : \A j \in keep : j <= i)

\* String.prototype.trim: leading and trailing whitespace removed.
trim(s) ==
  LET keep == {i \in 1..Len(s) : s[i] \notin Whitespace}
  IN IF keep = {} THEN <<>>
     ELSE SubSeq(s, CHOOSE i \in keep : \A j \in keep : i <= j,
                    CHOOSE i \in keep : \A j \in keep : j <= i)

\* String.prototype.startsWith.
startsWith(s, p) == Len(s) >= Len(p) /\ SubSeq(s, 1, Len(p)) = p

\* The Server-Sent-Events framing prefix 'data: ' and the length sliced off.
DataPrefix == <<"d", "a", "t", "a", ":", " ">>
PrefixLen == 6

\* ------------------------------------------------------------------- JSON

\* The member lists the glyphs stand for.
MemberGlyphs == {"1", "2", "k", "j", "p", "v", "o"}

Members(g) ==
  CASE g = "1" -> [id |-> "1", source |-> "s", subject |-> "/x", type |-> "t", data |-> "{}"]
    [] g = "2" -> [id |-> "2", source |-> "s", subject |-> "/x", type |-> "t", data |-> "{}"]
    [] g = "k" -> [payload |-> ""]
    [] g = "j" -> [a |-> "1"]
    [] g = "p" -> [payload |-> "", source |-> "s", type |-> "t"]
    [] g = "v" -> [payload |-> "x"]
    [] g = "o" -> [other |-> ""]

\* JSON.parse: the value of the text, or a SyntaxError (ok = FALSE).
JSONParse(text) ==
  LET t == SelectSeq(text, LAMBDA c : c \notin Whitespace)
  IN IF Len(t) = 3 /\ t[1] = "{" /\ t[3] = "}" /\ t[2] \in MemberGlyphs
     THEN [ok |-> TRUE, members |-> Members(t[2])]
     ELSE IF t = <<"{", "}">>
          THEN [ok |-> TRUE, members |-> <<>>]
          ELSE [ok |-> FALSE, members |-> <<>>]

\* new CloudEvent(json) in strict mode: throws a ValidationError unless the
\* required attributes source and type are present; id, time and
\* specversion are defaulted.
CloudEventValid(members) ==
  /\ "source" \in DOMAIN members
  /\ "type" \in DOMAIN members

CloudEvent(members) ==
  members @@ [id |-> "uuid", time |-> "now", specversion |-> "1.0"]

\* IsKeepAlive without the name of the key: any object with one key that
\* holds an empty string is taken for a keep-alive.
IsKeepAliveAnyKey(members) ==
  /\ Cardinality(DOMAIN members) = 1
  /\ \A k \in DOMAIN members : members[k] = ""

\* The keep-alive test of the compiled build:
\* json.payload === '' && Object.keys(json).length === 1.
IsKeepAlive(members) ==
  /\ "payload" \in DOMAIN members
  /\ members["payload"] = ""
  /\ Cardinality(DOMAIN members) = 1

\* ------------------------------------------------------ per-record steps

\* Feed with the assignment in place of the append: the partial line kept
\* from the fragment before is lost.
FeedReplaces(buf, value) == value

\* buffer += decoder.decode(value, { stream: true })
Feed(buf, value) == buf \o value

\* StreamRecord constructing the Event without validation
\* (new CloudEvent(json, false)): every parsed value becomes an Event.
StreamRecordUnvalidated(line) ==
  LET json == JSONParse(line)
  IN IF json.ok
     THEN [out |-> <<CloudEvent(json.members)>>, reported |-> 0, thrown |-> FALSE]
     ELSE [out |-> <<>>, reported |-> 1, thrown |-> FALSE]

\* StreamRecord without the inner catch block: a failure leaves the
\* statement as an exception.
StreamRecordUncaught(line) ==
  LET json == JSONParse(line)
  IN IF json.ok /\ CloudEventValid(json.members)
     THEN [out |-> <<CloudEvent(json.members)>>, reported |-> 0, thrown |-> FALSE]
     ELSE [out |-> <<>>, reported |-> 0, thrown |-> TRUE]

\* The try/catch of streamEvents for one non-blank line: the events pushed,
\* the number of failures reported by the catch block, and whether an
\* exception leaves the statement (the catch block swallows every one).
StreamRecord(line) ==
  LET json == JSONParse(line)
  IN IF json.ok /\ CloudEventValid(json.members)
     THEN [out |-> <<CloudEvent(json.members)>>, reported |-> 0, thrown |-> FALSE]
     ELSE [out |-> <<>>, reported |-> 1, thrown |-> FALSE]

\* QRecord with the keep-alive test of observeEvents: the record is dropped.
QRecordDropsKeepAlive(line) ==
  LET json == JSONParse(line)
  IN IF json.ok /\ ~IsKeepAlive(json.members)
     THEN [out |-> <<json.members>>, reported |-> 0, thrown |-> FALSE]
     ELSE [out |-> <<>>, reported |-> IF json.ok THEN 0 ELSE 1, thrown |-> FALSE]

\* QRecord with the framing removed as in observeEvents.
QRecordStrips(line) ==
  LET json == JSONParse(IF startsWith(line, DataPrefix)
                        THEN sliceFrom(line, PrefixLen) ELSE line)
  IN IF json.ok
     THEN [out |-> <<json.members>>, reported |-> 0, thrown |-> FALSE]
     ELSE [out |-> <<>>, reported |-> 1, thrown |-> FALSE]

\* QRecord without the inner catch block: a parse failure leaves the
\* statement as an exception.
QRecordUncaught(line) ==
  LET json == JSONParse(line)
  IN IF json.ok
     THEN [out |-> <<json.members>>, reported |-> 0, thrown |-> FALSE]
     ELSE [out |-> <<>>, reported |-> 0, thrown |-> TRUE]

\* QRecord with the value wrapped into an Event as in streamEvents.
QRecordAsEvent(line) ==
  LET json == JSONParse(line)
  IN IF json.ok /\ CloudEventValid(json.members)
     THEN [out |-> <<CloudEvent(json.members)>>, reported |-> 0, thrown |-> FALSE]
     ELSE [out |-> <<>>, reported |-> 1, thrown |-> FALSE]

\* The try/catch of q for one non-blank line: the raw value is pushed.
QRecord(line) ==
  LET json == JSONParse(line)
  IN IF json.ok
     THEN [out |-> <<json.members>>, reported |-> 0, thrown |-> FALSE]
     ELSE [out |-> <<>>, reported |-> 1, thrown |-> FALSE]

\* JsonStr without the framing test: the line is parsed as it is.
JsonStrKeeps(line) == line

\* const jsonStr = line.startsWith('data: ') ? line.slice(6) : line
JsonStr(line) ==
  IF startsWith(line, DataPrefix) THEN sliceFrom(line, PrefixLen) ELSE line

\* Whether the build drops keep-alive records before constructing an Event:
\* the compiled build does, the TypeScript source has no such test.
DropsKeepAlive(b) == b = "js"

\* ObserveRecord with new CloudEvent(json) after the try block: a parse
\* failure is caught, a construction failure leaves the statement.
ObserveRecordConstructsOutside(b, line) ==
  LET json == JSONParse(JsonStr(line))
  IN IF ~json.ok THEN [out |-> <<>>, reported |-> 1, thrown |-> FALSE]
     ELSE IF DropsKeepAlive(b) /\ IsKeepAlive(json.members)
          THEN [out |-> <<>>, reported |-> 0, thrown |-> FALSE]
          ELSE IF CloudEventValid(json.members)
               THEN [out |-> <<CloudEvent(json.members)>>, reported |-> 0,
                     thrown |-> FALSE]
               ELSE [out |-> <<>>, reported |-> 0, thrown |-> TRUE]

\* The try/catch of observeEvents for one non-blank line: the event yielded
\* (at most one), the number of failures reported by the catch block, and
\* whether an exception leaves the statement.
ObserveRecord(b, line) ==
  LET json == JSONParse(JsonStr(line))
  IN IF ~json.ok THEN [out |-> <<>>, reported |-> 1, thrown |-> FALSE]
     ELSE IF DropsKeepAlive(b) /\ IsKeepAlive(json.members)
          THEN [out |-> <<>>, reported |-> 0, thrown |-> FALSE]
          ELSE IF CloudEventValid(json.members)
               THEN [out |-> <<CloudEvent(json.members)>>, reported |-> 0,
                     thrown |-> FALSE]
               ELSE [out |-> <<>>, reported |-> 1, thrown |-> FALSE]

\* ------------------------------------------------------ extraction loops

\* With(e, LAMBDA x : ...) stands for const x = e: e is evaluated once, when
\* the statement runs, and x holds its value from then on.
With(v, F(_)) == CHOOSE r \in {F(x) : x \in {v}} : TRUE

\* BulkLoop without the test if (!line) continue: a blank line goes to the
\* record step, where JSON.parse('') throws and the catch block reports it.
RECURSIVE BulkLoopNoSkip(_, _, _, _, _)
BulkLoopNoSkip(kind, buf, acc, rep, taken) ==
  LET newlineIndex == indexOf(buf, NL)
  IN IF newlineIndex < 0
     THEN [buffer |-> buf, out |-> acc, reported |-> rep, lines |-> taken,
           thrown |-> FALSE]
     ELSE With(slice(buf, 0, newlineIndex), LAMBDA raw :
          With(trim(raw), LAMBDA line :
          With(sliceFrom(buf, newlineIndex + 1), LAMBDA rest :
          With(IF kind = "q" THEN QRecord(line) ELSE StreamRecord(line),
               LAMBDA r :
            BulkLoopNoSkip(kind, rest, acc \o r.out, rep + r.reported,
                           Append(taken, raw))))))

\* while ((newlineIndex = buffer.indexOf('\n')) >= 0) { ... } of streamEvents
\* (kind "streamEvents") and q (kind "q"): runs until the buffer holds no
\* newline, or an exception leaves it. taken collects the raw slices cut
\* off the buffer.
RECURSIVE BulkLoop(_, _, _, _, _)
BulkLoop(kind, buf, acc, rep, taken) ==
  LET newlineIndex == indexOf(buf, NL)
  IN IF newlineIndex < 0
     THEN [buffer |-> buf, out |-> acc, reported |-> rep, lines |-> taken,
           thrown |-> FALSE]
     ELSE With(slice(buf, 0, newlineIndex), LAMBDA raw :
          With(trim(raw), LAMBDA line :
          With(sliceFrom(buf, newlineIndex + 1), LAMBDA rest :
            IF line = <<>>
            THEN BulkLoop(kind, rest, acc, rep, Append(taken, raw))
            ELSE With(IF kind = "q" THEN QRecord(line) ELSE StreamRecord(line),
                      LAMBDA r :
                   IF r.thrown
                   THEN [buffer |-> rest, out |-> acc, reported |-> rep,
                         lines |-> Append(taken, raw), thrown |-> TRUE]
                   ELSE BulkLoop(kind, rest, acc \o r.out, rep + r.reported,
                                 Append(taken, raw))))))

\* The same loop in observeEvents, which suspends at the first yield: runs
\* until an event is yielded, the buffer holds no newline, or an exception
\* leaves it.
RECURSIVE ObserveLoop(_, _, _, _)
ObserveLoop(b, buf, rep, taken) ==
  LET newlineIndex == indexOf(buf, NL)
  IN IF newlineIndex < 0
     THEN [buffer |-> buf, out |-> <<>>, reported |-> rep, lines |-> taken,
           thrown |-> FALSE]
     ELSE With(slice(buf, 0, newlineIndex), LAMBDA raw :
          With(trim(raw), LAMBDA line :
          With(sliceFrom(buf, newlineIndex + 1), LAMBDA rest :
            IF line = <<>>
            THEN ObserveLoop(b, rest, rep, Append(taken, raw))
            ELSE With(ObserveRecord(b, line), LAMBDA r :
                   IF r.out # <<>> \/ r.thrown
                   THEN [buffer |-> rest, out |-> r.out,
                         reported |-> rep + r.reported,
                         lines |-> Append(taken, raw), thrown |-> r.thrown]
                   ELSE ObserveLoop(b, rest, rep + r.reported,
                                    Append(taken, raw))))))

\* EmptyBody without the trim: only the empty text short-circuits.
EmptyBodyUntrimmed(rawText) == rawText = <<>>

\* if (!rawText || rawText.trim() === '') return []
EmptyBody(rawText) == rawText = <<>> \/ trim(rawText) = <<>>

\* ------------------------------------------------------- response bodies

Ev1 == <<"{", "1", "}">>
Ev2 == <<"{", "2", "}">>
KeepAliveText == <<"{", "k", "}">>
MalformedText == <<"{", "1">>
BlankText == <<" ">>
SseEv1 == DataPrefix \o Ev1
NotEventText == <<"{", "j", "}">>

\* Records that resemble the keep-alive record: an event that also has an
\* empty payload member, a payload that is not empty, and a single empty
\* member under another name.
PayloadEventText == <<"{", "p", "}">>
PayloadValueText == <<"{", "v", "}">>
OtherEmptyText == <<"{", "o", "}">>

\* The lines a response body is made of.
LineTexts ==
  {Ev1, Ev2, KeepAliveText, MalformedText, BlankText, SseEv1, NotEventText}

\* A last line that is not terminated by a newline.
LastLine == Ev2

RECURSIVE Terminated(_)
Terminated(n) ==
  IF n = 0 THEN {<<>>}
  ELSE LET prev == Terminated(n - 1)
       IN prev \cup {b \o l \o <<NL>> : b \in prev, l \in LineTexts}

\* A line of every kind that is no plain record, between two records.
ScenarioBodies ==
  {Ev1 \o <<NL>> \o l \o <<NL>> \o Ev2 \o <<NL>> : l \in LineTexts \ {Ev1, Ev2}}

\* A record that resembles the keep-alive record, before an event record.
SentinelBodies ==
  {l \o <<NL>> \o Ev2 \o <<NL>> :
     l \in {PayloadEventText, PayloadValueText, OtherEmptyText}}

\* Records that end with carriage return and newline, with an empty line
\* between them; and a framed record with a space before and after it.
CrLf == <<"\r", NL>>

PaddedBodies ==
  {Ev1 \o CrLf \o CrLf \o Ev2 \o CrLf,
   <<" ">> \o SseEv1 \o <<" ", NL>>}

\* Every body the server may send: up to MaxLines lines of any kind, each
\* terminated by a newline, or all but a last line LastLine; and the
\* scenario bodies.
Bodies ==
  Terminated(MaxLines) \cup {b \o LastLine : b \in Terminated(MaxLines - 1)}
    \cup ScenarioBodies \cup SentinelBodies \cup PaddedBodies

\* ------------------------------------------------------------------ state

VARIABLES
  build,      \* "ts": src/src/client.ts, "js": the compiled build
  op,         \* the operation called: "none", "streamEvents", "q", "observeEvents"
  pc,         \* where the call stands
  status,     \* res.ok: "none" (no response), "ok", "failed"
  wire,       \* the whole body the server sends
  remaining,  \* the part of the body the source has not delivered yet
  buffer,     \* let buffer = ''
  events,     \* streamEvents: const events; observeEvents: the events yielded
  results,    \* q: const results
  outcome,    \* "pending", "returned" (bulk), "completed" (generator), "error"
  error,      \* the message of the error thrown to the caller
  reader,     \* "none", "locked", "released", "cancelled"
  reading,    \* a reader.read() call has been made
  requests,   \* number of fetch calls made
  reported,   \* number of per-record failures reported by a catch block
  lines,      \* the raw slices cut off the buffer so far
  stopped,    \* the consumer called return() on the generator
  gens,       \* two observeEvents generators of one client, by call
  buffers,    \* the buffer variables of those generators, by owner
  sources,    \* what the response of each of those calls has yet to deliver
  pending,    \* number of reader.read() calls that have not settled yet
  env,        \* process.env when the Client is constructed
  config,     \* the argument of the constructor
  made,       \* "no", "yes" (constructed), "threw" (the constructor threw)
  client,     \* the fields apiUrl, apiVersion, authToken of the instance
  missing,    \* the names listed in the message of the constructor's error
  call,       \* the operation called on the instance, with its arguments
  request,    \* the request handed to fetch: url, method and JSON body
  response,   \* what the transport made of that request
  answer,     \* how that call ended: its value or its error
  finished,   \* number of calls that have ended on the instance
  injected,   \* number of exceptions the consumer has thrown into the generator
  assigned    \* the assignments of the fields the constructor has run

vars ==
  <<build, op, pc, status, wire, remaining, buffer, events, results, outcome,
    error, reader, reading, requests, reported, lines, stopped, gens,
    buffers, sources, pending, env, config, made, client, missing,
    call, request, response, answer, finished, injected, assigned>>

\* The state of the two-generator scenario.
pairVars == <<gens, buffers, sources>>

\* The state of the construction and request scenario.
clientVars ==
  <<env, config, made, client, missing, call, request, response, answer,
    finished, assigned>>

\* Two observeEvents calls made on one Client instance.
Calls == {"A", "B"}

\* A generator that has not been created yet.
NewGen ==
  [pc |-> "idle", wire |-> <<>>, events |-> <<>>, requests |-> 0,
   ended |-> "no", late |-> FALSE]

\* An optional value: absent, or present with a value.
None == <<>>

Some(x) == <<x>>

\* const requiredEnvVars, in the order of the list.
requiredEnvVars ==
  <<"GENESISDB_API_URL", "GENESISDB_API_VERSION", "GENESISDB_AUTH_TOKEN">>

EnvVars == {requiredEnvVars[i] : i \in DOMAIN requiredEnvVars}

\* An environment variable that is not set reads as undefined.
Unset == None

\* new Client() is called without an argument.
NoConfig == None

\* The fields of an instance the constructor has not assigned yet.
NoClient == [apiUrl |-> "", apiVersion |-> "", authToken |-> ""]

\* No operation has been called on the instance, no request handed to fetch,
\* no call has ended.
NoCall == None

NoRequest == None

NoResponse == None

NoAnswer == None

Init ==
  /\ build \in {"ts", "js"}
  /\ op = "none"
  /\ pc = "idle"
  /\ status = "none"
  /\ wire = <<>>
  /\ remaining = <<>>
  /\ buffer = <<>>
  /\ events = <<>>
  /\ results = <<>>
  /\ outcome = "pending"
  /\ error = ""
  /\ reader = "none"
  /\ reading = FALSE
  /\ requests = 0
  /\ reported = 0
  /\ lines = <<>>
  /\ stopped = FALSE
  /\ gens = [c \in Calls |-> NewGen]
  /\ buffers = [c \in Calls |-> <<>>]
  /\ sources = [c \in Calls |-> <<>>]
  /\ pending = 0
  /\ env = [v \in EnvVars |-> Unset]
  /\ config = NoConfig
  /\ made = "no"
  /\ client = NoClient
  /\ missing = <<>>
  /\ call = NoCall
  /\ request = NoRequest
  /\ response = NoResponse
  /\ answer = NoAnswer
  /\ finished = 0
  /\ injected = 0
  /\ assigned = "none"

Bulk == {"streamEvents", "q"}

\* The operations that send a request and return nothing.
Commands == {"commitEvents", "eraseData"}

\* The operations that return the text of the response.
StatusOps == {"audit", "ping"}

\* The text the server answers a ping with.
StatusText == <<"p", "o", "n", "g">>

\* The call ends by throwing msg: the outer catch reports and rethrows.
Throw(msg) ==
  /\ pc' = "done"
  /\ outcome' = "error"
  /\ error' = msg

\* ---------------------------------------------------------------- actions

\* streamEvents(subject) or q(query) is called: the request is sent.
BulkCall(o) ==
  /\ pc = "idle"
  /\ o \in Bulk
  /\ op' = o
  /\ pc' = "awaitFetch"
  /\ requests' = requests + 1
  /\ UNCHANGED <<build, status, wire, remaining, buffer, events, results,
                 outcome, error, reader, reading, reported, lines, stopped>>
  /\ UNCHANGED pending
  /\ UNCHANGED injected
  /\ UNCHANGED <<pairVars, clientVars>>

\* commitEvents(events), eraseData(subject), audit() or ping() is called:
\* the request is sent.
PlainCall(o) ==
  /\ pc = "idle"
  /\ o \in Commands \cup StatusOps
  /\ op' = o
  /\ pc' = "awaitFetch"
  /\ requests' = requests + 1
  /\ UNCHANGED <<build, status, wire, remaining, buffer, events, results,
                 outcome, error, reader, reading, reported, lines, stopped>>
  /\ UNCHANGED pending
  /\ UNCHANGED injected
  /\ UNCHANGED <<pairVars, clientVars>>

\* ObserveCall of a plain async function: the body runs up to the fetch when
\* it is called.
ObserveCallEager ==
  /\ pc = "idle"
  /\ op' = "observeEvents"
  /\ requests' = requests + 1
  /\ pc' = "awaitFetch"
  /\ UNCHANGED <<build, status, wire, remaining, buffer, events, results,
                 outcome, error, reader, reading, reported, lines, stopped>>
  /\ UNCHANGED pending
  /\ UNCHANGED injected
  /\ UNCHANGED <<pairVars, clientVars>>

\* observeEvents(subject) is called: an async generator is created, and
\* none of its body runs.
ObserveCall ==
  /\ pc = "idle"
  /\ op' = "observeEvents"
  /\ pc' = "suspendedStart"
  /\ UNCHANGED <<build, status, wire, remaining, buffer, events, results,
                 outcome, error, reader, reading, requests, reported, lines,
                 stopped>>
  /\ UNCHANGED pending
  /\ UNCHANGED injected
  /\ UNCHANGED <<pairVars, clientVars>>

\* FetchReject followed by a second attempt: the request is sent again.
FetchRejectRetries ==
  /\ pc = "awaitFetch"
  /\ requests < 2
  /\ requests' = requests + 1
  /\ UNCHANGED <<build, op, pc, status, wire, remaining, buffer, events,
                 results, outcome, error, reader, reading, reported, lines,
                 stopped>>
  /\ UNCHANGED pending
  /\ UNCHANGED injected
  /\ UNCHANGED <<pairVars, clientVars>>

\* fetch rejects (no response): the outer catch rethrows.
FetchReject ==
  /\ pc = "awaitFetch"
  /\ Throw("fetch failed")
  /\ UNCHANGED <<build, op, status, wire, remaining, buffer, events, results,
                 reader, reading, requests, reported, lines, stopped>>
  /\ UNCHANGED pending
  /\ UNCHANGED injected
  /\ UNCHANGED <<pairVars, clientVars>>

\* FetchNotOk without the status test: the body of the failed response is
\* read like that of a success.
FetchNotOkIgnored ==
  /\ pc = "awaitFetch"
  /\ op \in Bulk
  /\ status' = "failed"
  /\ \E body \in Bodies : wire' = body
  /\ pc' = "awaitText"
  /\ UNCHANGED <<build, op, remaining, buffer, events, results, outcome,
                 error, reader, reading, requests, reported, lines, stopped>>
  /\ UNCHANGED pending
  /\ UNCHANGED injected
  /\ UNCHANGED <<pairVars, clientVars>>

\* FetchNotOk that tests the status in streamEvents and q only: the
\* generator reads the body of the failed response.
FetchNotOkDrains ==
  /\ pc = "awaitFetch"
  /\ status' = "failed"
  /\ IF op = "observeEvents"
     THEN /\ \E body \in Bodies : wire' = body /\ remaining' = body
          /\ reader' = "locked"
          /\ reading' = TRUE
          /\ pending' = pending + 1
          /\ pc' = "awaitRead"
          /\ UNCHANGED <<outcome, error>>
     ELSE /\ Throw("API Error")
          /\ UNCHANGED <<wire, remaining, reader, reading, pending>>
  /\ UNCHANGED <<build, op, buffer, events, results, requests, reported,
                 lines, stopped>>
  /\ UNCHANGED injected
  /\ UNCHANGED <<pairVars, clientVars>>

\* fetch resolves with a non-success status: if (!res.ok) throw.
FetchNotOk ==
  /\ pc = "awaitFetch"
  /\ status' = "failed"
  /\ Throw("API Error")
  /\ UNCHANGED <<build, op, wire, remaining, buffer, events, results, reader,
                 reading, requests, reported, lines, stopped>>
  /\ UNCHANGED pending
  /\ UNCHANGED injected
  /\ UNCHANGED <<pairVars, clientVars>>

\* fetch resolves with a success status in streamEvents or q: res.text() is
\* awaited.
FetchOkBulk ==
  /\ pc = "awaitFetch"
  /\ op \in Bulk
  /\ status' = "ok"
  /\ \E body \in Bodies : wire' = body
  /\ pc' = "awaitText"
  /\ UNCHANGED <<build, op, remaining, buffer, events, results, outcome,
                 error, reader, reading, requests, reported, lines, stopped>>
  /\ UNCHANGED pending
  /\ UNCHANGED injected
  /\ UNCHANGED <<pairVars, clientVars>>

\* fetch resolves with a success status in commitEvents or eraseData: the
\* call returns.
FetchOkCommand ==
  /\ pc = "awaitFetch"
  /\ op \in Commands
  /\ status' = "ok"
  /\ pc' = "done"
  /\ outcome' = "returned"
  /\ UNCHANGED <<build, op, wire, remaining, buffer, events, results, error,
                 reader, reading, requests, reported, lines, stopped>>
  /\ UNCHANGED pending
  /\ UNCHANGED injected
  /\ UNCHANGED <<pairVars, clientVars>>

\* fetch resolves with a success status in audit or ping: res.text() is
\* awaited.
FetchOkStatus ==
  /\ pc = "awaitFetch"
  /\ op \in StatusOps
  /\ status' = "ok"
  /\ wire' = StatusText
  /\ pc' = "awaitText"
  /\ UNCHANGED <<build, op, remaining, buffer, events, results, outcome,
                 error, reader, reading, requests, reported, lines, stopped>>
  /\ UNCHANGED pending
  /\ UNCHANGED injected
  /\ UNCHANGED <<pairVars, clientVars>>

\* FetchOkNullBody without the test if (!res.body): the generator finds
\* nothing to read and completes.
FetchOkNullBodyCompletes ==
  /\ pc = "awaitFetch"
  /\ op = "observeEvents"
  /\ status' = "ok"
  /\ pc' = "done"
  /\ outcome' = "completed"
  /\ UNCHANGED <<build, op, wire, remaining, buffer, events, results, error,
                 reader, reading, requests, reported, lines, stopped>>
  /\ UNCHANGED pending
  /\ UNCHANGED injected
  /\ UNCHANGED <<pairVars, clientVars>>

\* fetch resolves with a success status and no body in observeEvents.
FetchOkNullBody ==
  /\ pc = "awaitFetch"
  /\ op = "observeEvents"
  /\ status' = "ok"
  /\ Throw("Response body is null")
  /\ UNCHANGED <<build, op, wire, remaining, buffer, events, results, reader,
                 reading, requests, reported, lines, stopped>>
  /\ UNCHANGED pending
  /\ UNCHANGED injected
  /\ UNCHANGED <<pairVars, clientVars>>

\* fetch resolves with a success status and a body in observeEvents: the
\* reader is taken, the buffer created and the first read requested.
FetchOkObserve ==
  /\ pc = "awaitFetch"
  /\ op = "observeEvents"
  /\ status' = "ok"
  /\ \E body \in Bodies : wire' = body /\ remaining' = body
  /\ reader' = "locked"
  /\ buffer' = <<>>
  /\ reading' = TRUE
  /\ pending' = pending + 1
  /\ pc' = "awaitRead"
  /\ UNCHANGED <<build, op, events, results, outcome, error, requests,
                 reported, lines, stopped>>
  /\ UNCHANGED injected
  /\ UNCHANGED <<pairVars, clientVars>>

\* res.text() rejects: the outer catch rethrows.
TextReject ==
  /\ pc = "awaitText"
  /\ Throw("text failed")
  /\ UNCHANGED <<build, op, status, wire, remaining, buffer, events, results,
                 reader, reading, requests, reported, lines, stopped>>
  /\ UNCHANGED pending
  /\ UNCHANGED injected
  /\ UNCHANGED <<pairVars, clientVars>>

\* res.text() resolves in audit or ping: the text is returned.
TextResolveStatus ==
  /\ pc = "awaitText"
  /\ op \in StatusOps
  /\ pc' = "done"
  /\ outcome' = "returned"
  /\ UNCHANGED <<build, op, status, wire, remaining, buffer, events, results,
                 error, reader, reading, requests, reported, lines, stopped>>
  /\ UNCHANGED pending
  /\ UNCHANGED injected
  /\ UNCHANGED <<pairVars, clientVars>>

\* res.text() resolves: an empty body returns [] at once; otherwise a
\* one-chunk stream is built from the text, its reader taken, the buffer
\* created and the first read requested.
TextResolve ==
  /\ pc = "awaitText"
  /\ op \in Bulk
  /\ IF EmptyBody(wire)
     THEN /\ pc' = "done"
          /\ outcome' = "returned"
          /\ UNCHANGED <<remaining, buffer, reader, reading, pending>>
     ELSE /\ remaining' = wire
          /\ reader' = "locked"
          /\ buffer' = <<>>
          /\ reading' = TRUE
          /\ pending' = pending + 1
          /\ pc' = "awaitRead"
          /\ UNCHANGED outcome
  /\ UNCHANGED <<build, op, status, wire, events, results, error, requests,
                 reported, lines, stopped>>
  /\ UNCHANGED injected
  /\ UNCHANGED <<pairVars, clientVars>>

\* reader.read() resolves with the one chunk of the fabricated stream; the
\* extraction loop runs and the next read is requested. An exception that
\* leaves the loop reaches the outer catch, which rethrows.
BulkRead ==
  /\ pc = "awaitRead"
  /\ op \in Bulk
  /\ remaining # <<>>
  /\ \E r \in {With(Feed(buffer, remaining), LAMBDA buf :
                     BulkLoop(op, buf, IF op = "q" THEN results ELSE events,
                              reported, lines))} :
        /\ buffer' = r.buffer
        /\ reported' = r.reported
        /\ lines' = r.lines
        /\ IF op = "q"
           THEN results' = r.out /\ UNCHANGED events
           ELSE events' = r.out /\ UNCHANGED results
        /\ IF r.thrown
           THEN Throw("record error") /\ pending' = pending - 1
           ELSE UNCHANGED <<pc, outcome, error, pending>>
  /\ remaining' = <<>>
  /\ reading' = TRUE
  /\ UNCHANGED <<build, op, status, wire, reader, requests, stopped>>
  /\ UNCHANGED injected
  /\ UNCHANGED <<pairVars, clientVars>>

\* ReadDone that flushes the buffer: what is left in it at the end of the
\* source is handled as a last line.
ReadDoneFlushes ==
  /\ pc = "awaitRead"
  /\ remaining = <<>>
  /\ LET line == trim(buffer)
         r == IF line = <<>>
              THEN [out |-> <<>>, reported |-> 0, thrown |-> FALSE]
              ELSE IF op = "q" THEN QRecord(line)
                   ELSE IF op = "streamEvents" THEN StreamRecord(line)
                        ELSE ObserveRecord(build, line)
     IN /\ reported' = reported + r.reported
        /\ IF op = "q"
           THEN results' = results \o r.out /\ UNCHANGED events
           ELSE events' = events \o r.out /\ UNCHANGED results
  /\ buffer' = <<>>
  /\ pc' = "done"
  /\ pending' = pending - 1
  /\ outcome' = IF op \in Bulk THEN "returned" ELSE "completed"
  /\ UNCHANGED <<build, op, status, wire, remaining, error, reader, reading,
                 requests, lines, stopped>>
  /\ UNCHANGED injected
  /\ UNCHANGED <<pairVars, clientVars>>

\* ReadDone without the test if (done) break: the loop goes on to the next
\* read, which resolves with done again.
ReadDoneLoops ==
  /\ pc = "awaitRead"
  /\ remaining = <<>>
  /\ UNCHANGED vars

\* reader.read() resolves with done: the loop breaks; a bulk call returns
\* its list, the generator completes.
ReadDone ==
  /\ pc = "awaitRead"
  /\ remaining = <<>>
  /\ pc' = "done"
  /\ pending' = pending - 1
  /\ outcome' = IF op \in Bulk THEN "returned" ELSE "completed"
  /\ UNCHANGED <<build, op, status, wire, remaining, buffer, events, results,
                 error, reader, reading, requests, reported, lines, stopped>>
  /\ UNCHANGED injected
  /\ UNCHANGED <<pairVars, clientVars>>

\* Advance that requests the next chunk as soon as the fragment has arrived,
\* before the events decoded from it are yielded.
AdvanceReadsAhead(buf) ==
  LET unsettled == IF pc = "awaitRead" THEN pending - 1 ELSE pending
  IN \E r \in {With(buf, LAMBDA b : ObserveLoop(build, b, reported, lines))} :
     /\ buffer' = r.buffer
     /\ reported' = r.reported
     /\ lines' = r.lines
     /\ IF r.thrown
        THEN /\ Throw("record error")
             /\ pending' = unsettled
             /\ UNCHANGED <<events, reading>>
        ELSE IF r.out # <<>>
             THEN /\ events' = events \o r.out
                  /\ pc' = "suspendedYield"
                  /\ pending' = IF pc = "awaitRead" THEN unsettled + 1
                                                     ELSE unsettled
                  /\ UNCHANGED <<outcome, error, reading>>
             ELSE /\ pc' = "awaitRead"
                  /\ reading' = TRUE
                  /\ pending' = IF pending = 0 THEN 1 ELSE pending
                  /\ UNCHANGED <<outcome, error, events>>

\* The generator runs the extraction loop on buf until it yields, needs the
\* next chunk, or an exception leaves the loop.
Advance(buf) ==
  LET \* entered from await reader.read(), that read has settled
      unsettled == IF pc = "awaitRead" THEN pending - 1 ELSE pending
  IN \E r \in {With(buf, LAMBDA b : ObserveLoop(build, b, reported, lines))} :
     /\ buffer' = r.buffer
     /\ reported' = r.reported
     /\ lines' = r.lines
     /\ IF r.thrown
        THEN /\ Throw("record error")
             /\ pending' = unsettled
             /\ UNCHANGED <<events, reading>>
        ELSE IF r.out # <<>>
             THEN /\ events' = events \o r.out
                  /\ pc' = "suspendedYield"
                  /\ pending' = unsettled
                  /\ UNCHANGED <<outcome, error, reading>>
             ELSE /\ pc' = "awaitRead"
                  /\ reading' = TRUE
                  /\ pending' = unsettled + 1
                  /\ UNCHANGED <<outcome, error, events>>

\* reader.read() resolves with the next fragment of the response, of any
\* length, in observeEvents.
ObserveRead(k) ==
  /\ pc = "awaitRead"
  /\ op = "observeEvents"
  /\ k \in 1..Len(remaining)
  /\ Advance(Feed(buffer, SubSeq(remaining, 1, k)))
  /\ remaining' = SubSeq(remaining, k + 1, Len(remaining))
  /\ UNCHANGED <<build, op, status, wire, results, reader, requests, stopped>>
  /\ UNCHANGED injected
  /\ UNCHANGED <<pairVars, clientVars>>

\* ReadReject with the rejection swallowed: the loop ends and the generator
\* completes as if the source were exhausted.
ReadRejectSwallowed ==
  /\ pc = "awaitRead"
  /\ op = "observeEvents"
  /\ pc' = "done"
  /\ pending' = pending - 1
  /\ outcome' = "completed"
  /\ UNCHANGED <<build, op, status, wire, remaining, buffer, events, results,
                 error, reader, reading, requests, reported, lines, stopped>>
  /\ UNCHANGED injected
  /\ UNCHANGED <<pairVars, clientVars>>

\* reader.read() rejects in observeEvents: the outer catch rethrows.
ReadReject ==
  /\ pc = "awaitRead"
  /\ op = "observeEvents"
  /\ Throw("read failed")
  /\ pending' = pending - 1
  /\ UNCHANGED <<build, op, status, wire, remaining, buffer, events, results,
                 reader, reading, requests, reported, lines, stopped>>
  /\ UNCHANGED injected
  /\ UNCHANGED <<pairVars, clientVars>>

\* The consumer asks for the first element: the generator body starts and
\* sends the request.
ConsumerFirstNext ==
  /\ pc = "suspendedStart"
  /\ requests' = requests + 1
  /\ pc' = "awaitFetch"
  /\ UNCHANGED <<build, op, status, wire, remaining, buffer, events, results,
                 outcome, error, reader, reading, reported, lines, stopped>>
  /\ UNCHANGED pending
  /\ UNCHANGED injected
  /\ UNCHANGED <<pairVars, clientVars>>

\* The consumer asks for the next element: the generator resumes after the
\* yield, inside the extraction loop.
ConsumerNext ==
  /\ pc = "suspendedYield"
  /\ Advance(buffer)
  /\ UNCHANGED <<build, op, status, wire, remaining, results, reader,
                 requests, stopped>>
  /\ UNCHANGED injected
  /\ UNCHANGED <<pairVars, clientVars>>

\* ConsumerReturn that leaves the generator suspended: it can be resumed.
ConsumerReturnResumable ==
  /\ pc \in {"suspendedStart", "suspendedYield"}
  /\ stopped' = TRUE
  /\ UNCHANGED <<build, op, pc, status, wire, remaining, buffer, events,
                 results, outcome, error, reader, reading, requests, reported,
                 lines>>
  /\ UNCHANGED pending
  /\ UNCHANGED injected
  /\ UNCHANGED <<pairVars, clientVars>>

\* The consumer stops (break in for await, or return()): the generator
\* completes where it is suspended; no finally block runs.
ConsumerReturn ==
  /\ pc \in {"suspendedStart", "suspendedYield"}
  /\ pc' = "done"
  /\ outcome' = "completed"
  /\ stopped' = TRUE
  /\ UNCHANGED <<build, op, status, wire, remaining, buffer, events, results,
                 error, reader, reading, requests, reported, lines>>
  /\ UNCHANGED pending
  /\ UNCHANGED injected
  /\ UNCHANGED <<pairVars, clientVars>>

\* next() on the finished generator: { done: true }, nothing runs.
ConsumerPostNext ==
  /\ pc = "done"
  /\ op = "observeEvents"
  /\ UNCHANGED vars

\* ConsumerThrow with the yield outside the try block of the record: the
\* exception reaches the outer catch, which rethrows it.
ConsumerThrowUncaught ==
  /\ pc = "suspendedYield"
  /\ injected < MaxInjected
  /\ injected' = injected + 1
  /\ Throw("injected")
  /\ UNCHANGED <<build, op, status, wire, remaining, buffer, events, results,
                 reader, reading, requests, reported, lines, stopped, pending>>
  /\ UNCHANGED <<pairVars, clientVars>>

\* The consumer calls throw(e) on the generator suspended at a yield: the
\* yield expression throws e inside the try block of the record, the catch
\* block reports it, and the extraction loop goes on with the buffer.
ConsumerThrow ==
  /\ pc = "suspendedYield"
  /\ injected < MaxInjected
  /\ injected' = injected + 1
  /\ \E r \in {With(buffer, LAMBDA b :
                     ObserveLoop(build, b, reported + 1, lines))} :
       /\ buffer' = r.buffer
       /\ reported' = r.reported
       /\ lines' = r.lines
       /\ IF r.thrown
          THEN /\ Throw("record error")
               /\ UNCHANGED <<events, reading, pending>>
          ELSE IF r.out # <<>>
               THEN /\ events' = events \o r.out
                    /\ UNCHANGED <<pc, outcome, error, reading, pending>>
               ELSE /\ pc' = "awaitRead"
                    /\ reading' = TRUE
                    /\ pending' = pending + 1
                    /\ UNCHANGED <<outcome, error, events>>
  /\ UNCHANGED <<build, op, status, wire, remaining, results, reader,
                 requests, stopped>>
  /\ UNCHANGED <<pairVars, clientVars>>

\* The consumer calls throw(e) on the generator before asking for an
\* element: none of the body runs, the generator is finished and throw
\* rejects with e.
ConsumerThrowAtStart ==
  /\ pc = "suspendedStart"
  /\ injected < MaxInjected
  /\ injected' = injected + 1
  /\ Throw("injected")
  /\ UNCHANGED <<build, op, status, wire, remaining, buffer, events, results,
                 reader, reading, requests, reported, lines, stopped, pending>>
  /\ UNCHANGED <<pairVars, clientVars>>

Next ==
  \/ \E o \in Bulk : BulkCall(o)
  \/ \E o \in Commands \cup StatusOps : PlainCall(o)
  \/ ObserveCall
  \/ FetchReject
  \/ FetchNotOk
  \/ FetchOkBulk
  \/ FetchOkCommand
  \/ FetchOkStatus
  \/ FetchOkNullBody
  \/ FetchOkObserve
  \/ TextReject
  \/ TextResolve
  \/ TextResolveStatus
  \/ BulkRead
  \/ ReadDone
  \/ \E k \in 1..Len(remaining) : ObserveRead(k)
  \/ ReadReject
  \/ ConsumerFirstNext
  \/ ConsumerNext
  \/ ConsumerReturn
  \/ ConsumerPostNext

Spec == Init /\ [][Next]_vars

\* Every read that has been requested settles, and the consumer of the
\* generator, unless it stops, asks for the element after the one yielded.
SpecLive ==
  /\ Init
  /\ [][Next]_vars
  /\ WF_vars(BulkRead)
  /\ WF_vars(ReadDone)
  /\ WF_vars(\E k \in 1..Len(remaining) : ObserveRead(k))
  /\ WF_vars(ConsumerNext)

\* The single call with a consumer that may also throw into the generator.
NextInject ==
  \/ Next
  \/ ConsumerThrow
  \/ ConsumerThrowAtStart

SpecInject == Init /\ [][NextInject]_vars

\* ------------------------------------------ two observations, one client

\* The state of the single call, which the two-generator scenario leaves
\* alone.
callVars ==
  <<build, op, pc, status, wire, remaining, buffer, events, results, outcome,
    error, reader, reading, requests, reported, lines, stopped, pending,
    injected>>

E1 == Ev1 \o <<NL>>
E2 == Ev2 \o <<NL>>

\* The bodies the server sends to the two observations.
PairBodies == {E1 \o E2, E2 \o E1}

\* BufferOf with the buffer kept in a field of the Client instance: every
\* call uses the same one.
BufferOfShared(c) == "A"

\* let buffer = '' is a local variable of the generator function: every
\* call has its own.
BufferOf(c) == c

\* const reader = res.body.getReader(): every call reads the body of its
\* own response.
ReaderOf(c) == c

\* Generator c runs the extraction loop on buf until it yields or needs the
\* next chunk.
GenAdvance(c, buf) ==
  \E r \in {With(buf, LAMBDA b : ObserveLoop(build, b, 0, <<>>))} :
     /\ buffers' = [buffers EXCEPT ![BufferOf(c)] = r.buffer]
     /\ gens' = [gens EXCEPT
                   ![c].events = @ \o r.out,
                   ![c].pc = IF r.out # <<>> THEN "suspendedYield"
                                             ELSE "awaitRead"]

\* observeEvents(subject) is called a first or a second time on the client.
GenCall(c) ==
  /\ gens[c].pc = "idle"
  /\ gens' = [gens EXCEPT ![c].pc = "suspendedStart"]
  /\ UNCHANGED <<buffers, sources>>
  /\ UNCHANGED <<callVars, clientVars>>

\* The consumer of c asks for the first element: the request is sent.
GenFirstNext(c) ==
  /\ gens[c].pc = "suspendedStart"
  /\ gens' = [gens EXCEPT ![c].pc = "awaitFetch", ![c].requests = @ + 1]
  /\ UNCHANGED <<buffers, sources>>
  /\ UNCHANGED <<callVars, clientVars>>

\* The request of c fails (fetch rejects, the status is non-success, or the
\* response has no body): the outer catch rethrows.
GenFetchFails(c) ==
  /\ gens[c].pc = "awaitFetch"
  /\ gens' = [gens EXCEPT ![c].pc = "done", ![c].ended = "error"]
  /\ UNCHANGED <<buffers, sources>>
  /\ UNCHANGED <<callVars, clientVars>>

\* The request of c is answered with a success status and a body: the
\* reader is taken, the buffer created and the first read requested.
GenFetchOk(c) ==
  /\ gens[c].pc = "awaitFetch"
  /\ \E body \in PairBodies :
       /\ gens' = [gens EXCEPT ![c].pc = "awaitRead", ![c].wire = body]
       /\ sources' = [sources EXCEPT ![ReaderOf(c)] = body]
  /\ buffers' = [buffers EXCEPT ![BufferOf(c)] = <<>>]
  /\ UNCHANGED <<callVars, clientVars>>


\* reader.read() of c resolves with the next fragment of its response.
GenRead(c, k) ==
  /\ gens[c].pc = "awaitRead"
  /\ k \in 1..Len(sources[ReaderOf(c)])
  /\ GenAdvance(c, Feed(buffers[BufferOf(c)],
                        SubSeq(sources[ReaderOf(c)], 1, k)))
  /\ sources' = [sources EXCEPT
                   ![ReaderOf(c)] = SubSeq(@, k + 1, Len(@))]
  /\ UNCHANGED <<callVars, clientVars>>

\* reader.read() of c resolves with done: the generator completes.
GenReadDone(c) ==
  /\ gens[c].pc = "awaitRead"
  /\ sources[ReaderOf(c)] = <<>>
  /\ gens' = [gens EXCEPT ![c].pc = "done", ![c].ended = "exhausted"]
  /\ UNCHANGED <<buffers, sources>>
  /\ UNCHANGED <<callVars, clientVars>>

\* reader.read() of c rejects: the outer catch rethrows.
GenReadReject(c) ==
  /\ gens[c].pc = "awaitRead"
  /\ gens' = [gens EXCEPT ![c].pc = "done", ![c].ended = "error"]
  /\ UNCHANGED <<buffers, sources>>
  /\ UNCHANGED <<callVars, clientVars>>

\* The consumer of c asks for the next element: the generator resumes
\* after the yield, inside the extraction loop.
GenNext(c) ==
  /\ gens[c].pc = "suspendedYield"
  /\ GenAdvance(c, buffers[BufferOf(c)])
  /\ UNCHANGED sources
  /\ UNCHANGED <<callVars, clientVars>>

\* The consumer of c stops: the generator completes where it is suspended.
GenReturn(c) ==
  /\ gens[c].pc \in {"suspendedStart", "suspendedYield"}
  /\ gens' = [gens EXCEPT ![c].pc = "done", ![c].ended = "return"]
  /\ UNCHANGED <<buffers, sources>>
  /\ UNCHANGED <<callVars, clientVars>>

\* GenLateNext that runs the generator function again: a new request is
\* sent.
GenLateNextRestarts(c) ==
  /\ gens[c].pc = "done"
  /\ gens[c].requests < 2
  /\ gens' = [gens EXCEPT ![c].pc = "awaitFetch", ![c].requests = @ + 1,
                          ![c].late = TRUE]
  /\ UNCHANGED <<buffers, sources>>
  /\ UNCHANGED <<callVars, clientVars>>

\* next() on the finished generator c: { value: undefined, done: true };
\* none of the generator function runs.
GenLateNext(c) ==
  /\ gens[c].pc = "done"
  /\ gens' = [gens EXCEPT ![c].late = TRUE]
  /\ UNCHANGED <<buffers, sources>>
  /\ UNCHANGED <<callVars, clientVars>>

NextPair ==
  \E c \in Calls :
    \/ GenCall(c)
    \/ GenFirstNext(c)
    \/ GenFetchFails(c)
    \/ GenFetchOk(c)
    \/ \E k \in 1..Len(sources[ReaderOf(c)]) : GenRead(c, k)
    \/ GenReadDone(c)
    \/ GenReadReject(c)
    \/ GenNext(c)
    \/ GenReturn(c)
    \/ GenLateNext(c)

SpecPair == Init /\ [][NextPair]_vars

\* ------------------------------------------------- reference definitions

\* The list a call hands to its caller: q collects results, the others events.
Delivered == IF op = "q" THEN results ELSE events

\* The call ended without an error and, for a generator, was not stopped by
\* the consumer.
RanToEnd ==
  /\ pc = "done"
  /\ outcome \in {"returned", "completed"}
  /\ ~stopped

\* The text is empty or holds whitespace only.
BlankBody(text) == \A i \in DOMAIN text : text[i] \in Whitespace

\* The lines of a text that end with a newline, in order, without it.
TerminatedLines(text) ==
  LET ends == {i \in 1..Len(text) : text[i] = NL}
      nth(k) == CHOOSE i \in ends : Cardinality({j \in ends : j <= i}) = k
      first(k) == IF k = 1 THEN 1 ELSE nth(k - 1) + 1
  IN [k \in 1..Cardinality(ends) |-> SubSeq(text, first(k), nth(k) - 1)]

\* The text after the last newline.
Unterminated(text) ==
  LET ends == {i \in 1..Len(text) : text[i] = NL}
      last == IF ends = {} THEN 0 ELSE CHOOSE i \in ends : \A j \in ends : j <= i
  IN SubSeq(text, last + 1, Len(text))

\* A trimmed line without its 'data: ' framing.
StripPrefix(t) ==
  IF Len(t) >= 6 /\ SubSeq(t, 1, 6) = <<"d", "a", "t", "a", ":", " ">>
  THEN SubSeq(t, 7, Len(t))
  ELSE t

\* The text JSON.parse is given for a trimmed line: only observeEvents
\* removes the framing.
ParsedText(o, t) == IF o = "observeEvents" THEN StripPrefix(t) ELSE t

\* The line is not blank and its text does not parse.
ParseFails(o, l) ==
  trim(l) # <<>> /\ ~JSONParse(ParsedText(o, trim(l))).ok

\* What one raw line contributes to the list of operation o.
OutputOfLine(o, l) ==
  LET t == trim(l)
      j == JSONParse(ParsedText(o, t))
  IN IF t = <<>> \/ ~j.ok THEN <<>>
     ELSE IF o = "q" THEN <<j.members>>
          ELSE IF CloudEventValid(j.members)
               THEN <<CloudEvent(j.members)>>
               ELSE <<>>

RECURSIVE CollectOutputs(_, _)
CollectOutputs(o, ls) ==
  IF ls = <<>> THEN <<>>
  ELSE OutputOfLine(o, Head(ls)) \o CollectOutputs(o, Tail(ls))

IsPrefix(a, b) == Len(a) <= Len(b) /\ SubSeq(b, 1, Len(a)) = a

Count(seq, P(_)) == Cardinality({i \in DOMAIN seq : P(seq[i])})

RECURSIVE JoinLines(_)
JoinLines(ls) ==
  IF ls = <<>> THEN <<>> ELSE Head(ls) \o <<NL>> \o JoinLines(Tail(ls))

\* The text with every line trimmed and freed of its 'data: ' framing.
UnframedText(text) ==
  LET ls == TerminatedLines(text)
  IN JoinLines([k \in DOMAIN ls |-> StripPrefix(trim(ls[k]))])
       \o Unterminated(text)

\* observeEvents on a source that delivers text as one fragment, consumed to
\* the end: the events yielded and the raw lines cut off.
RECURSIVE ObserveWhole(_, _, _, _)
ObserveWhole(b, buf, evs, taken) ==
  LET r == ObserveLoop(b, buf, 0, taken)
  IN IF r.out = <<>>
     THEN [events |-> evs, lines |-> r.lines]
     ELSE ObserveWhole(b, r.buffer, evs \o r.out, r.lines)

\* streamEvents or q on the body text: the list returned.
BulkWhole(o, text) ==
  IF EmptyBody(text) THEN <<>>
  ELSE BulkLoop(o, Feed(<<>>, text), <<>>, 0, <<>>).out

\* ------------------------------------------- construction and requests

\* Bounds of the inputs of commitEvents: the number of events in a call.
MaxEvents == 2

\* The number of calls made one after the other on an instance.
MaxCalls == 2

\* The values a variable of the environment can have: not set, empty, set.
EnvValues == {Unset, Some(""), Some("env")}

Envs == [EnvVars -> EnvValues]

\* The values a field of the config can have: left out, empty, given.
ConfigValues == {None, Some(""), Some("cfg")}

\* The arguments of new Client(config?).
Configs ==
  {NoConfig} \cup
    {Some(c) : c \in [{"apiUrl", "apiVersion", "authToken"} -> ConfigValues]}

\* !x on an optional string: undefined and '' are falsy.
Falsy(x) == x = None \/ x[1] = ""

\* a ?? b in place of a || b: only undefined gives way, '' is kept.
OrNullish(a, b) == IF a = None THEN b ELSE a

\* a || b
Or(a, b) == IF Falsy(a) THEN b ELSE a

\* checkRequiredEnv with the test process.env[envVar] === undefined: an
\* empty variable counts as set.
checkRequiredEnvUnsetOnly(e) ==
  SelectSeq(requiredEnvVars, LAMBDA envVar : e[envVar] = Unset)

\* checkRequiredEnv: const missingEnvVars; it throws when the list is not
\* empty, with the names joined by ', ' in the message.
checkRequiredEnv(e) ==
  SelectSeq(requiredEnvVars, LAMBDA envVar : Falsy(e[envVar]))

\* The string an optional string holds; undefined stays out of a field only
\* because checkRequiredEnv has thrown before.
StringOf(x) == IF x = None THEN "" ELSE x[1]

\* this.apiUrl = process.env.GENESISDB_API_URL!, and so on.
FromEnv(e) ==
  [apiUrl |-> StringOf(e["GENESISDB_API_URL"]),
   apiVersion |-> StringOf(e["GENESISDB_API_VERSION"]),
   authToken |-> StringOf(e["GENESISDB_AUTH_TOKEN"])]

\* The constructor: the fields it assigns, or the names its error lists.
Constructor(e, cfg) ==
  LET missingEnvVars == checkRequiredEnv(e)
      thrown == [thrown |-> TRUE, fields |-> NoClient,
                 missing |-> missingEnvVars, assigned |-> "none"]
      \* which == "env": lines 47-49; which == "fallback": lines 41-43
      fromEnv(which) ==
        [thrown |-> FALSE, fields |-> FromEnv(e), missing |-> <<>>,
         assigned |-> which]
  IN IF cfg # NoConfig
     THEN LET c == cfg[1]
              fields ==
                [apiUrl |->
                   StringOf(Or(Or(c.apiUrl, e["GENESISDB_API_URL"]), Some(""))),
                 apiVersion |->
                   StringOf(Or(Or(c.apiVersion, e["GENESISDB_API_VERSION"]),
                               Some(""))),
                 authToken |->
                   StringOf(Or(Or(c.authToken, e["GENESISDB_AUTH_TOKEN"]),
                               Some("")))]
          IN IF fields.apiUrl = "" \/ fields.apiVersion = ""
                  \/ fields.authToken = ""
             THEN IF missingEnvVars # <<>> THEN thrown
                  ELSE fromEnv("fallback")
             ELSE [thrown |-> FALSE, fields |-> fields, missing |-> <<>>,
                   assigned |-> "config"]
     ELSE IF missingEnvVars # <<>> THEN thrown ELSE fromEnv("env")

\* The value of a member that was given as undefined.
Undefined == "undefined"

\* JSON.stringify on an object with scalar members, as the server parses
\* it: a member whose value is undefined is left out.
Stringify(obj) == [f \in {g \in DOMAIN obj : obj[g] # Undefined} |-> obj[f]]

Subject == "/test"

\* The options arguments of streamEvents and observeEvents: none, an empty
\* object, and objects with some or all of the three fields.
OptionArgs ==
  {None,
   Some(<<>>),
   Some([lowerBound |-> "123"]),
   Some([includeLowerBoundEvent |-> "false"]),
   Some([lowerBound |-> "", latestByEventType |-> Undefined]),
   Some([lowerBound |-> "123", includeLowerBoundEvent |-> "true",
         latestByEventType |-> "test.type"])}

\* StreamBody with the test if (options && Object.keys(options).length):
\* an options object without members is not sent.
StreamBodyNonEmpty(subject, options) ==
  IF options # None /\ DOMAIN options[1] # {}
  THEN [subject |-> subject, options |-> Stringify(options[1])]
  ELSE [subject |-> subject]

\* const requestBody of streamEvents and observeEvents, as sent.
StreamBody(subject, options) ==
  IF options # None
  THEN [subject |-> subject, options |-> Stringify(options[1])]
  ELSE [subject |-> subject]

\* The events commitEvents is given: a plain one, one with options, one
\* with a field the request has no place for, one with empty data and an
\* empty options object.
EventArgs ==
  {[source |-> "src", subject |-> "/a", type |-> "added", data |-> "A"],
   [source |-> "src", subject |-> "/b", type |-> "added", data |-> "B",
    options |-> [storeDataAsReference |-> "true"]],
   [source |-> "src", subject |-> "/c", type |-> "updated", data |-> "C",
    id |-> "7"],
   [source |-> "src", subject |-> "/d", type |-> "updated", data |-> "",
    options |-> <<>>]}

EventLists ==
  UNION {[1..n -> EventArgs] : n \in 0..MaxEvents}

Pre1 == [type |-> "isSubjectNew", payload |-> "/a"]
Pre2 == [type |-> "isQueryResultTrue", payload |-> "q"]

\* The preconditions argument: left out, empty, one, two.
PreconditionArgs ==
  {None, Some(<<>>), Some(<<Pre1>>), Some(<<Pre2, Pre1>>)}

\* eventData with every field of the input event copied.
eventDataWhole(event) == event

\* const eventData of the map callback in commitEvents.
eventData(event) ==
  LET fields == [source |-> event.source, subject |-> event.subject,
                 type |-> event.type, data |-> event.data]
  IN IF "options" \in DOMAIN event
     THEN [f \in DOMAIN fields \cup {"options"} |->
             IF f = "options" THEN Stringify(event.options) ELSE fields[f]]
     ELSE fields

\* withPreconditions that sets the field whenever the argument is given.
withPreconditionsGiven(body, preconditions) ==
  IF preconditions # None
  THEN [f \in DOMAIN body \cup {"preconditions"} |->
          IF f = "preconditions" THEN preconditions[1] ELSE body[f]]
  ELSE body

\* if (preconditions && preconditions.length > 0)
\*   requestBody.preconditions = preconditions
withPreconditions(body, preconditions) ==
  IF preconditions # None /\ Len(preconditions[1]) > 0
  THEN [f \in DOMAIN body \cup {"preconditions"} |->
          IF f = "preconditions" THEN preconditions[1] ELSE body[f]]
  ELSE body

\* const requestBody of commitEvents, as sent.
CommitBody(evs, preconditions) ==
  withPreconditions([events |-> [i \in DOMAIN evs |-> eventData(evs[i])]],
                    preconditions)

\* `${this.apiUrl}/api/${this.apiVersion}/<path>`, by its parts.
Url(c, path) == <<c.apiUrl, "/api/", c.apiVersion, path>>

\* The path of the url of an operation.
PathOf(o) ==
  CASE o = "streamEvents" -> "/stream"
    [] o = "observeEvents" -> "/observe"
    [] o = "commitEvents" -> "/commit"
    [] o = "eraseData" -> "/erase"
    [] o = "audit" -> "/status/audit"
    [] o = "ping" -> "/status/ping"
    [] o = "q" -> "/q"

\* The argument list of fetch: url, method, the Authorization header and
\* the body.
Fetch(c, o, method, body) ==
  Some([url |-> Url(c, PathOf(o)), method |-> method,
        authorization |-> <<"Bearer ", c.authToken>>, body |-> body])

\* The texts the server answers audit and ping with.
StatusTexts == {<<>>, StatusText, <<" ">> \o StatusText \o <<NL>>}

\* The bodies the server answers a query with.
QueryBodies ==
  {<<>>,
   Ev1 \o <<NL>> \o NotEventText \o <<NL>>,
   NotEventText \o <<NL>> \o MalformedText \o <<NL>> \o Ev2}

\* What the transport does with a request: fetch rejects, or resolves with
\* a non-success or a success status.
Rejected ==
  [settled |-> "rejected", status |-> "", statusText |-> "", text |-> <<>>]

Failures ==
  {[settled |-> "failed", status |-> "400", statusText |-> "Bad Request",
    text |-> <<>>],
   [settled |-> "failed", status |-> "500",
    statusText |-> "Internal Server Error", text |-> StatusText]}

Succeeded(texts) ==
  {[settled |-> "ok", status |-> "200", statusText |-> "OK", text |-> t] :
     t \in texts}

\* The responses that can follow the request of operation o.
Responses(o) ==
  {Rejected} \cup Failures \cup
    Succeeded(IF o \in Commands THEN {<<>>}
              ELSE IF o \in StatusOps THEN StatusTexts
              ELSE QueryBodies)

\* How a call ends.
Returns(kind, list, text) ==
  Some([kind |-> kind, list |-> list, text |-> text, error |-> <<>>])

Throws(message) ==
  Some([kind |-> "error", list |-> <<>>, text |-> <<>>, error |-> message])

\* The end of audit and ping with the text trimmed before it is returned.
ReturnTextTrimmed(text) == Returns("text", <<>>, trim(text))

\* return await res.text()
ReturnText(text) == Returns("text", <<>>, text)

\* throw new Error(`API Error: ${res.status} ${res.statusText}`)
ApiError(res) == Throws(<<"API Error: ", res.status, " ", res.statusText>>)

\* How operation o ends on response res.
Answer(o, res) ==
  IF res.settled = "rejected" THEN Throws(<<"fetch failed">>)
  ELSE IF res.settled = "failed" THEN ApiError(res)
  ELSE IF o \in Commands THEN Returns("undefined", <<>>, <<>>)
  ELSE IF o \in StatusOps THEN ReturnText(res.text)
  ELSE Returns("list", BulkWhole(o, res.text), <<>>)

\* new Client(config) runs in environment e.
Construct(e, cfg) ==
  /\ made = "no"
  /\ env' = e
  /\ config' = cfg
  /\ LET r == Constructor(e, cfg)
     IN /\ made' = IF r.thrown THEN "threw" ELSE "yes"
        /\ client' = r.fields
        /\ missing' = r.missing
        /\ assigned' = r.assigned
  /\ UNCHANGED <<call, request, response, answer>>
  /\ UNCHANGED finished
  /\ UNCHANGED <<callVars, pairVars>>

\* The instances the operations are called on: the one the test suite
\* builds from the environment alone, and one built from a config alone.
Exercised ==
  /\ made = "yes"
  /\ \/ config = NoConfig
     \/ \A envVar \in EnvVars : env[envVar] = Unset

\* streamEvents(subject, options) is called, or observeEvents(subject,
\* options) is called and its first element asked for: the request is sent.
StreamRequest(o, options) ==
  /\ Exercised
  /\ call = NoCall
  /\ o \in {"streamEvents", "observeEvents"}
  /\ call' = Some([op |-> o, subject |-> Subject, options |-> options])
  /\ request' = Fetch(client, o, "POST", Some(StreamBody(Subject, options)))
  /\ UNCHANGED <<env, config, made, client, missing, response, answer>>
  /\ UNCHANGED <<finished, assigned>>
  /\ UNCHANGED <<callVars, pairVars>>

\* commitEvents(events, preconditions) is called: the request is sent.
CommitRequest(evs, preconditions) ==
  /\ Exercised
  /\ call = NoCall
  /\ call' = Some([op |-> "commitEvents", events |-> evs,
                   preconditions |-> preconditions])
  /\ request' = Fetch(client, "commitEvents", "POST",
                      Some(CommitBody(evs, preconditions)))
  /\ UNCHANGED <<env, config, made, client, missing, response, answer>>
  /\ UNCHANGED <<finished, assigned>>
  /\ UNCHANGED <<callVars, pairVars>>

\* eraseData(subject) is called: the request is sent.
EraseRequest ==
  /\ Exercised
  /\ call = NoCall
  /\ call' = Some([op |-> "eraseData", subject |-> Subject])
  /\ request' = Fetch(client, "eraseData", "POST",
                      Some([subject |-> Subject]))
  /\ UNCHANGED <<env, config, made, client, missing, response, answer>>
  /\ UNCHANGED <<finished, assigned>>
  /\ UNCHANGED <<callVars, pairVars>>

\* audit() or ping() is called: the request, which has no body, is sent.
StatusRequest(o) ==
  /\ Exercised
  /\ call = NoCall
  /\ o \in StatusOps
  /\ call' = Some([op |-> o])
  /\ request' = Fetch(client, o, "GET", None)
  /\ UNCHANGED <<env, config, made, client, missing, response, answer>>
  /\ UNCHANGED <<finished, assigned>>
  /\ UNCHANGED <<callVars, pairVars>>

Query == "FROM e IN events"

\* q(query) is called: the request is sent.
QRequest ==
  /\ Exercised
  /\ call = NoCall
  /\ call' = Some([op |-> "q", query |-> Query])
  /\ request' = Fetch(client, "q", "POST", Some([query |-> Query]))
  /\ UNCHANGED <<env, config, made, client, missing, response, answer>>
  /\ UNCHANGED <<finished, assigned>>
  /\ UNCHANGED <<callVars, pairVars>>

\* queryEvents(query) is called. The compiled build has the method, which
\* returns this.q(query): the request of q is sent. The class of
\* src/src/client.ts has no such method: the call throws a TypeError and
\* nothing is sent.
QueryEventsRequest ==
  /\ Exercised
  /\ call = NoCall
  /\ call' = Some([op |-> "queryEvents", query |-> Query])
  /\ IF build = "js"
     THEN /\ request' = Fetch(client, "q", "POST", Some([query |-> Query]))
          /\ UNCHANGED answer
     ELSE /\ answer' = Throws(<<"TypeError: ", "client.queryEvents",
                                " is not a function">>)
          /\ UNCHANGED request
  /\ UNCHANGED <<env, config, made, client, missing, response>>
  /\ UNCHANGED <<finished, assigned>>
  /\ UNCHANGED <<callVars, pairVars>>

\* The method that runs for a call: queryEvents runs q.
Runs(o) == IF o = "queryEvents" THEN "q" ELSE o

\* Settle that drops the token when the call fails: the instance is left
\* without credentials.
SettleForgets(res) ==
  /\ request # NoRequest
  /\ answer = NoAnswer
  /\ call[1].op \in Commands \cup StatusOps \cup {"q", "queryEvents"}
  /\ res \in Responses(Runs(call[1].op))
  /\ response' = Some(res)
  /\ answer' = Answer(Runs(call[1].op), res)
  /\ client' = IF res.settled = "ok" THEN client
               ELSE [client EXCEPT !.authToken = ""]
  /\ UNCHANGED <<env, config, made, missing, call, request, finished,
                 assigned>>
  /\ UNCHANGED <<callVars, pairVars>>

\* The response to the request of a bulk or plain call arrives, or fetch
\* rejects: the call ends.
Settle(res) ==
  /\ request # NoRequest
  /\ answer = NoAnswer
  /\ call[1].op \in Commands \cup StatusOps \cup {"q", "queryEvents"}
  /\ res \in Responses(Runs(call[1].op))
  /\ response' = Some(res)
  /\ answer' = Answer(Runs(call[1].op), res)
  /\ UNCHANGED <<env, config, made, client, missing, call, request>>
  /\ UNCHANGED <<finished, assigned>>
  /\ UNCHANGED <<callVars, pairVars>>

\* The call has ended (the request of streamEvents and observeEvents has
\* been sent and their decoding is left to the read path): the instance is
\* used for the next call.
NextCall ==
  /\ call # NoCall
  /\ answer # NoAnswer \/ call[1].op \in {"streamEvents", "observeEvents"}
  /\ finished + 1 < MaxCalls
  /\ finished' = finished + 1
  /\ call' = NoCall
  /\ request' = NoRequest
  /\ response' = NoResponse
  /\ answer' = NoAnswer
  /\ UNCHANGED <<env, config, made, client, missing, assigned>>
  /\ UNCHANGED <<callVars, pairVars>>

NextClient ==
  \/ \E e \in Envs, cfg \in Configs : Construct(e, cfg)
  \/ \E o \in {"streamEvents", "observeEvents"}, options \in OptionArgs :
       StreamRequest(o, options)
  \/ \E evs \in EventLists, preconditions \in PreconditionArgs :
       CommitRequest(evs, preconditions)
  \/ EraseRequest
  \/ \E o \in StatusOps : StatusRequest(o)
  \/ QRequest
  \/ QueryEventsRequest
  \/ \E res \in UNION {Responses(o) : o \in Commands \cup StatusOps \cup {"q"}} :
       Settle(res)
  \/ NextCall

SpecClient == Init /\ [][NextClient]_vars

\* ----------------------------------------------------------------- claims

\* C1: in streamEvents, q and observeEvents a line that fails JSON parsing
\* produces no element and does not make the call fail (no record failure
\* ever reaches the caller); the call that runs to the end delivers exactly
\* the outputs of the lines that parse, in order.
C1_MalformedRecordIsolated ==
  /\ error # "record error"
  /\ RanToEnd =>
       Delivered =
         CollectOutputs(op, SelectSeq(TerminatedLines(wire),
                                      LAMBDA l : ~ParseFails(op, l)))

\* A call ran to the end over a body with a malformed line between two
\* records, and delivered both.
C1_Witness ==
  /\ RanToEnd
  /\ TerminatedLines(wire) = <<Ev1, MalformedText, Ev2>>
  /\ Len(Delivered) = 2
  /\ reported = 1
\* The part of the body the source has delivered.
Fed == SubSeq(wire, 1, Len(wire) - Len(remaining))

\* C2: however the body is cut into fragments, whenever observeEvents waits
\* for the next fragment, and when it has been consumed to the end, it has
\* cut off the same lines and yielded the same events as when the text
\* delivered so far arrives in one fragment.
C2_LineBoundaryInvariance ==
  (op = "observeEvents" /\ (pc = "awaitRead" \/ (RanToEnd /\ reading))) =>
    LET w == ObserveWhole(build, Feed(<<>>, Fed), <<>>, <<>>)
    IN /\ events = w.events
       /\ lines = w.lines
       /\ lines = TerminatedLines(Fed)

\* A fragment ended inside the second record: the first event has been
\* yielded, the start of the second record is buffered and its end is still
\* to come.
C2_Witness ==
  /\ op = "observeEvents"
  /\ pc = "awaitRead"
  /\ wire = Ev1 \o <<NL>> \o Ev2 \o <<NL>>
  /\ Len(events) = 1
  /\ buffer = <<"{", "2">>
  /\ remaining = <<"}", NL>>

\* C3: in observeEvents the reader taken from the response body has been
\* released or cancelled once the generator has finished, on every exit path
\* (source exhausted, consumer stop, error).
C3_ReaderReleasedOnExit ==
  (op = "observeEvents" /\ pc = "done" /\ reader # "none") =>
    reader \in {"released", "cancelled"}

\* C4: streamEvents builds its list from the lines cut off so far, one Event
\* per line that is non-blank, parses and constructs, in line order; on a
\* success response with a non-empty body the list returned is that of all
\* newline-terminated lines of the body.
C4_StreamEventsOnePerGoodLine ==
  op = "streamEvents" =>
    /\ events = CollectOutputs("streamEvents", lines)
    /\ (outcome = "returned" /\ ~BlankBody(wire)) =>
         /\ lines = TerminatedLines(wire)
         /\ Len(events) =
              Count(lines, LAMBDA l : /\ trim(l) # <<>>
                                      /\ JSONParse(trim(l)).ok
                                      /\ CloudEventValid(JSONParse(trim(l)).members))

\* streamEvents returned two events, in body order, from a body that also
\* holds a blank line.
C4_Witness ==
  /\ op = "streamEvents"
  /\ outcome = "returned"
  /\ TerminatedLines(wire) = <<Ev1, BlankText, Ev2>>
  /\ Len(events) = 2
  /\ events[1]["id"] = "1"
  /\ events[2]["id"] = "2"

\* C5: a bulk read ends either returning its complete list or failing with
\* one error; on a non-success status it fails at once, the body is neither
\* read nor decoded, and no list is returned.
C5_BulkAllOrError ==
  op \in Bulk =>
    /\ pc = "done" => outcome \in {"returned", "error"}
    /\ outcome = "error" => (pc = "done" /\ error # "")
    /\ outcome = "returned" =>
         /\ pc = "done"
         /\ error = ""
         /\ remaining = <<>>
         /\ Delivered = CollectOutputs(op, TerminatedLines(wire))
    /\ status = "failed" =>
         /\ pc = "done"
         /\ outcome = "error"
         /\ error = "API Error"
         /\ wire = <<>>
         /\ reader = "none"
         /\ ~reading
         /\ lines = <<>>
         /\ Delivered = <<>>

\* A bulk read failed on a non-success status.
C5_Witness ==
  /\ op \in Bulk
  /\ status = "failed"
  /\ outcome = "error"

\* C6: observeEvents yields events in the order of their lines in the
\* stream, and once the consumer has stopped, no further event is yielded
\* and nothing more is read from the source.
C6_OrderedAndStopEnds ==
  /\ [](op = "observeEvents" =>
          IsPrefix(events,
                   CollectOutputs("observeEvents", TerminatedLines(wire))))
  /\ [][stopped => (events' = events /\ remaining' = remaining /\ pc' = "done")]_vars

\* The consumer stopped after the first event while part of the stream was
\* still undelivered.
C6_Witness ==
  /\ stopped
  /\ pc = "done"
  /\ Len(events) = 1
  /\ remaining # <<>>
  /\ Len(CollectOutputs("observeEvents", TerminatedLines(wire))) = 2

\* The raw value of the record {"payload": ""}.
KeepAliveValue == [payload |-> ""]

\* C7: observeEvents never yields an Event for a record {"payload": ""} and
\* goes on to the records after it; q returns one raw value for every such
\* record.
C7_KeepAliveSuppressed ==
  /\ op = "observeEvents" =>
       /\ \A i \in DOMAIN events : "source" \in DOMAIN events[i]
       /\ RanToEnd =>
            events =
              CollectOutputs("observeEvents",
                             SelectSeq(TerminatedLines(wire),
                                       LAMBDA l : trim(l) # KeepAliveText))
  /\ (op = "q" /\ outcome = "returned") =>
       Count(results, LAMBDA v : v = KeepAliveValue) =
         Count(TerminatedLines(wire), LAMBDA l : trim(l) = KeepAliveText)

\* An observation ran to the end over a keep-alive record followed by an
\* event record, and yielded the one event.
C7_Witness ==
  /\ op = "observeEvents"
  /\ RanToEnd
  /\ TerminatedLines(wire) = <<KeepAliveText, Ev1>>
  /\ Len(events) = 1

\* C8: observeEvents treats a line 'data: ' followed by X as the line X: an
\* observation consumed to the end yields the events it yields for the body
\* with the framing removed from every line.
C8_SsePrefixStripped ==
  (op = "observeEvents" /\ RanToEnd) =>
    events =
      ObserveWhole(build, Feed(<<>>, UnframedText(wire)), <<>>, <<>>).events

\* An observation ran to the end over a framed record and yielded its event.
C8_Witness ==
  /\ op = "observeEvents"
  /\ RanToEnd
  /\ TerminatedLines(wire) = <<SseEv1, Ev2>>
  /\ Len(events) = 2

\* C9 as claimed: in streamEvents and q a line 'data: ' followed by X
\* produces the same record as the line X.
C9_BulkStripsPrefix ==
  (op \in Bulk /\ outcome = "returned") =>
    Delivered = BulkWhole(op, UnframedText(wire))

\* C9 as amended: streamEvents and q trim, skip blank lines and parse the
\* line as it is; a line starting with 'data: ' fails parsing, is reported
\* and produces no record, so the list returned is that of the other lines.
C9_BulkKeepsPrefix ==
  (op \in Bulk /\ outcome = "returned") =>
    LET framed(l) == startsWith(trim(l), DataPrefix)
    IN /\ Delivered =
            CollectOutputs(op, SelectSeq(TerminatedLines(wire),
                                         LAMBDA l : ~framed(l)))
       /\ ~BlankBody(wire) =>
            reported >= Count(TerminatedLines(wire), framed)

\* q returned only the unframed record of a body that holds a framed one.
C9_Witness ==
  /\ op = "q"
  /\ outcome = "returned"
  /\ TerminatedLines(wire) = <<SseEv1, Ev2>>
  /\ Len(results) = 1
  /\ reported = 1

\* C10: when the success response body is empty or whitespace only,
\* streamEvents and q return an empty list without taking a reader, creating
\* a buffer or reading a chunk.
C10_EmptyBodyShortCircuit ==
  (op \in Bulk /\ BlankBody(wire)) =>
    /\ reader = "none"
    /\ ~reading
    /\ pc # "awaitRead"
    /\ lines = <<>>
    /\ Delivered = <<>>
    /\ (pc = "done" /\ status = "ok" /\ error # "text failed") =>
         outcome = "returned"

\* streamEvents returned the empty list for a body of one blank line.
C10_Witness ==
  /\ op = "streamEvents"
  /\ status = "ok"
  /\ wire = <<" ", NL>>
  /\ outcome = "returned"
  /\ events = <<>>

\* The read paths of the client.
ReadPaths == {"streamEvents", "q", "observeEvents"}

\* The raw line l makes a catch block of operation o report a failure: it is
\* not blank and produces nothing, and it is not a keep-alive record that
\* the compiled build of observeEvents drops in silence.
ReportedLine(b, o, l) ==
  LET j == JSONParse(ParsedText(o, trim(l)))
  IN /\ ~BlankBody(l)
     /\ OutputOfLine(o, l) = <<>>
     /\ ~(o = "observeEvents" /\ b = "js" /\ j.ok /\ j.members = KeepAliveValue)

\* The text without its blank terminated lines.
WithoutBlankLines(text) ==
  JoinLines(SelectSeq(TerminatedLines(text), LAMBDA l : ~BlankBody(l)))
    \o Unterminated(text)

\* What operation o delivers for the body text, read to the end.
Whole(b, o, text) ==
  IF o = "observeEvents"
  THEN ObserveWhole(b, Feed(<<>>, text), <<>>, <<>>).events
  ELSE BulkWhole(o, text)

\* C11: in streamEvents, q and observeEvents a line that is empty or holds
\* whitespace only produces no record, no report of a failure and no failure
\* of the call: the failures reported are those of the non-blank lines, and
\* a call that runs to the end delivers what it delivers for the body with
\* the blank lines taken out.
C11_BlankLinesSkipped ==
  op \in ReadPaths =>
    /\ reported = Count(lines, LAMBDA l : ReportedLine(build, op, l))
    /\ \A i \in DOMAIN lines : BlankBody(lines[i]) => error # "record error"
    /\ RanToEnd => Delivered = Whole(build, op, WithoutBlankLines(wire))

\* An observation ran to the end over a blank line between two records: both
\* events were yielded and nothing was reported.
C11_Witness ==
  /\ op = "observeEvents"
  /\ RanToEnd
  /\ TerminatedLines(wire) = <<Ev1, BlankText, Ev2>>
  /\ Len(events) = 2
  /\ reported = 0

\* C12: when the source ends, what is left in the buffer (the text after the
\* last newline of the body) is discarded in streamEvents, q and
\* observeEvents: it is never cut off as a line, produces no element and no
\* report of a failure, so the call delivers the records of the
\* newline-terminated lines only.
C12_UnterminatedTailDiscarded ==
  (op \in ReadPaths /\ RanToEnd /\ reading) =>
    /\ buffer = Unterminated(wire)
    /\ lines = TerminatedLines(wire)
    /\ Delivered = CollectOutputs(op, TerminatedLines(wire))
    /\ reported =
         Count(TerminatedLines(wire), LAMBDA l : ReportedLine(build, op, l))
    /\ error = ""

\* streamEvents returned one event for a body of two records, the second of
\* which has no newline after it; that record is still in the buffer.
C12_Witness ==
  /\ op = "streamEvents"
  /\ outcome = "returned"
  /\ wire = Ev1 \o <<NL>> \o Ev2
  /\ Len(events) = 1
  /\ events[1]["id"] = "1"
  /\ buffer = Ev2
  /\ reported = 0

\* The raw line l parses in operation o and the Event cannot be constructed
\* from its value (a keep-alive record that the compiled build of
\* observeEvents drops before the construction does not count).
ConstructFails(b, o, l) ==
  LET j == JSONParse(ParsedText(o, trim(l)))
  IN /\ ~BlankBody(l)
     /\ j.ok
     /\ ~CloudEventValid(j.members)
     /\ ~(o = "observeEvents" /\ b = "js" /\ j.members = KeepAliveValue)

\* C13: in streamEvents and observeEvents a line that is well-formed JSON
\* and from which no Event can be constructed is reported and skipped: it
\* yields no event, the call does not fail with it, and the events are those
\* of the other lines, up to the last terminated line of the body when the
\* call runs to the end.
C13_ConstructionFailureIsolated ==
  op \in {"streamEvents", "observeEvents"} =>
    LET bad(l) == ConstructFails(build, op, l)
    IN /\ error # "record error"
       /\ events = CollectOutputs(op, SelectSeq(lines, LAMBDA l : ~bad(l)))
       /\ reported >= Count(lines, bad)
       /\ (RanToEnd /\ reading) =>
            /\ lines = TerminatedLines(wire)
            /\ Len(events) =
                 Count(lines, LAMBDA l : OutputOfLine(op, l) # <<>>)

\* The compiled build ran an observation to the end over a record that is
\* no event between two events: both were yielded, one failure reported.
C13_Witness ==
  /\ build = "js"
  /\ op = "observeEvents"
  /\ RanToEnd
  /\ TerminatedLines(wire) = <<Ev1, NotEventText, Ev2>>
  /\ Len(events) = 2
  /\ reported = 1

\* C14 as claimed: the only failures that reach the caller of a read path
\* are a non-success response status and an absent response body.
C14_OnlyStatusOrAbsentSource ==
  (op \in ReadPaths /\ outcome = "error") =>
    error \in {"API Error", "Response body is null"}

\* The failures of the transport itself: the request, the reading of the
\* body text, the reading of the next chunk.
TransportRejections == {"fetch failed", "text failed", "read failed"}

\* C14 as amended: the failures that reach the caller of a read path are a
\* non-success response status, an absent response body, and a rejection of
\* the transport itself (fetch, res.text(), reader.read()), each rethrown by
\* the outer catch block; a failure that arises while a record is decoded or
\* materialized never reaches the caller, whatever number of them was
\* reported.
C14_OnlyTransportFailuresPropagate ==
  op \in ReadPaths =>
    /\ (outcome = "error") = (error # "")
    /\ outcome = "error" =>
         /\ pc = "done"
         /\ error \in {"API Error", "Response body is null"}
                        \cup TransportRejections
    /\ (error = "API Error") = (status = "failed")
    /\ error = "Response body is null" =>
         (op = "observeEvents" /\ status = "ok" /\ reader = "none")
    /\ error = "fetch failed" => status = "none"
    /\ error \in {"text failed", "read failed"} => status = "ok"
    /\ (reported > 0 /\ outcome = "error") => error = "read failed"

\* An observation reported a record failure, went on and yielded an event,
\* and then ended with the rejection of a read.
C14_Witness ==
  /\ op = "observeEvents"
  /\ outcome = "error"
  /\ error = "read failed"
  /\ reported = 1
  /\ Len(events) = 1
  /\ lines = <<MalformedText, Ev1>>

\* C15: when the response to observeEvents is successful and has no body
\* (no reader was taken from it), the generator has ended with the error
\* 'Response body is null', raised by the first request for an element: one
\* request was sent, no event was yielded, no read was made and no line cut
\* off.
C15_NullBodyFails ==
  (op = "observeEvents" /\ status = "ok" /\ reader = "none") =>
    /\ pc = "done"
    /\ outcome = "error"
    /\ error = "Response body is null"
    /\ requests = 1
    /\ events = <<>>
    /\ ~reading
    /\ ~stopped
    /\ lines = <<>>
    /\ buffer = <<>>

\* An observation ended with 'Response body is null'.
C15_Witness ==
  /\ op = "observeEvents"
  /\ status = "ok"
  /\ reader = "none"
  /\ error = "Response body is null"
  /\ events = <<>>

\* C16: when the response to observeEvents has a non-success status, the
\* generator has ended with the error 'API Error: <status> <statusText>'
\* and not by completing: no event was yielded, and the draining of a
\* source never began (no reader, no read, no buffer content, no line).
C16_ObserveApiError ==
  (op = "observeEvents" /\ status = "failed") =>
    /\ pc = "done"
    /\ outcome = "error"
    /\ error = "API Error"
    /\ events = <<>>
    /\ reader = "none"
    /\ ~reading
    /\ wire = <<>>
    /\ buffer = <<>>
    /\ lines = <<>>
    /\ requests = 1

\* An observation ended with the API error.
C16_Witness ==
  /\ op = "observeEvents"
  /\ status = "failed"
  /\ outcome = "error"
  /\ error = "API Error"

\* C17: when a read fails in the middle of an observation, the generator
\* ends with that failure (an observation that ends with part of the source
\* undelivered, not stopped by the consumer, ended with the read error); the
\* events yielded before it are kept, the step that fails yields nothing,
\* and nothing is yielded or read after it.
C17_ReadFailureTerminal ==
  /\ [](( /\ op = "observeEvents"
          /\ pc = "done"
          /\ reader = "locked"
          /\ ~stopped
          /\ remaining # <<>> ) =>
          /\ outcome = "error"
          /\ error = "read failed"
          /\ events = CollectOutputs("observeEvents", lines))
  /\ [][error' = "read failed" =>
          (events' = events /\ remaining' = remaining /\ pc' = "done")]_vars

\* The read after the first event of two failed: the first event stays
\* yielded, the second record is still undelivered.
C17_Witness ==
  /\ op = "observeEvents"
  /\ error = "read failed"
  /\ wire = Ev1 \o <<NL>> \o Ev2 \o <<NL>>
  /\ Len(events) = 1
  /\ events[1]["id"] = "1"
  /\ remaining = Ev2 \o <<NL>>

\* The part of its body that the source of call c has delivered.
FedTo(c) == SubSeq(gens[c].wire, 1, Len(gens[c].wire) - Len(sources[c]))

\* C18: two observations made on one client and interleaved at any read or
\* yield do not interfere: each yields events of its own body only, in the
\* order of its own lines; whenever one waits for a fragment it has yielded
\* the events of the lines its own source has completed, and its buffer
\* holds its own partial line; consumed to the end, it has yielded all the
\* events of its own body.
C18_ObservationsIndependent ==
  \A c \in Calls :
    LET g == gens[c]
        own(text) == CollectOutputs("observeEvents", TerminatedLines(text))
    IN /\ IsPrefix(g.events, own(g.wire))
       /\ g.pc = "awaitRead" =>
            /\ g.events = own(FedTo(c))
            /\ buffers[c] = Unterminated(FedTo(c))
       /\ g.ended = "exhausted" => g.events = own(g.wire)

\* Both observations are in the middle of their second record at once: A
\* has yielded event 1 and buffered the start of record 2, B has yielded
\* event 2 and buffered the start of record 1.
C18_Witness ==
  /\ gens["A"].wire = E1 \o E2
  /\ gens["B"].wire = E2 \o E1
  /\ gens["A"].pc = "awaitRead"
  /\ gens["B"].pc = "awaitRead"
  /\ Len(gens["A"].events) = 1
  /\ gens["A"].events[1]["id"] = "1"
  /\ Len(gens["B"].events) = 1
  /\ gens["B"].events[1]["id"] = "2"
  /\ buffers["A"] = <<"{", "2">>
  /\ buffers["B"] = <<"{", "1">>

\* C19: the generator of one observeEvents call is single-use: once it has
\* finished (source exhausted, error, or consumer stop) it stays finished;
\* a later request for an element yields no event, sends no request and
\* reads nothing from the source; a call never sends a second request.
C19_SingleUse ==
  /\ [](\A c \in Calls : gens[c].requests <= 1)
  /\ [][\A c \in Calls :
          gens[c].pc = "done" =>
            /\ gens'[c].pc = "done"
            /\ gens'[c].ended = gens[c].ended
            /\ gens'[c].events = gens[c].events
            /\ gens'[c].requests = gens[c].requests
            /\ sources'[c] = sources[c]
            /\ buffers'[c] = buffers[c]]_vars

\* A further element was requested from an exhausted generator and from
\* one that the consumer had stopped after its first event.
C19_Witness ==
  /\ gens["A"].late
  /\ gens["A"].ended = "exhausted"
  /\ Len(gens["A"].events) = 2
  /\ gens["A"].requests = 1
  /\ gens["B"].late
  /\ gens["B"].ended = "return"
  /\ Len(gens["B"].events) = 1
  /\ sources["B"] # <<>>

\* C20 as claimed: every call of streamEvents, commitEvents, eraseData,
\* audit, ping, q and observeEvents that has ended has issued exactly one
\* request.
C20_ExactlyOneRequest ==
  (op # "none" /\ pc = "done") => requests = 1

\* The generator of observeEvents has not run any of its body: no element
\* has been requested yet, or the consumer stopped it before the first
\* request for one.
NotStarted ==
  /\ op = "observeEvents"
  /\ pc = "suspendedStart" \/ (stopped /\ status = "none")

\* C20 as amended: no operation sends a second request, on the success path
\* or on any failure path. streamEvents, commitEvents, eraseData, audit,
\* ping and q send their one request when they are called; observeEvents
\* sends its one request when the first element is requested, and none if
\* the generator is never asked for an element.
C20_NoRetries ==
  /\ requests <= 1
  /\ (requests = 1) = (op # "none" /\ ~NotStarted)
  /\ (pc = "done" /\ ~NotStarted) => requests = 1

\* commitEvents failed on a rejected request, having sent it once.
C20_Witness ==
  /\ op = "commitEvents"
  /\ pc = "done"
  /\ outcome = "error"
  /\ error = "fetch failed"
  /\ requests = 1

\* C21: commitEvents, eraseData, audit and ping end with the error
\* 'API Error: <status> <statusText>' of the response whenever its status is
\* non-success; on a success response commitEvents and eraseData return
\* undefined, and audit and ping return the text of the body as it is.
C21_PlainCallsEnd ==
  (answer # NoAnswer /\ call[1].op \in Commands \cup StatusOps) =>
    LET o == call[1].op
        res == response[1]
        a == answer[1]
    IN /\ res.settled = "failed" =>
            /\ a.kind = "error"
            /\ a.error = <<"API Error: ", res.status, " ", res.statusText>>
       /\ (res.settled = "ok" /\ o \in Commands) => a.kind = "undefined"
       /\ (res.settled = "ok" /\ o \in StatusOps) =>
            a.kind = "text" /\ a.text = res.text

\* ping has returned a text that begins with a space and ends with a
\* newline.
C21_Witness ==
  /\ answer # NoAnswer
  /\ call[1].op = "ping"
  /\ response[1].text = <<" ">> \o StatusText \o <<NL>>
  /\ answer[1].kind = "text"
  /\ answer[1].text = <<" ">> \o StatusText \o <<NL>>

\* The variable of the environment that stands in for a field of the config.
VarOfField ==
  [apiUrl |-> "GENESISDB_API_URL", apiVersion |-> "GENESISDB_API_VERSION",
   authToken |-> "GENESISDB_AUTH_TOKEN"]

\* The variables of the environment that are unset or empty.
EmptyVars == {envVar \in EnvVars : env[envVar] \in {Unset, Some("")}}

\* What a field resolves to: the value of the config when it is not empty,
\* otherwise the variable of the environment ('' when that is unset).
ResolvesTo(f) ==
  IF config # NoConfig /\ config[1][f] \notin {None, Some("")}
  THEN config[1][f][1]
  ELSE IF env[VarOfField[f]] = Unset THEN "" ELSE env[VarOfField[f]][1]

\* C22: a constructed Client has in each of apiUrl, apiVersion and authToken
\* the value of the config when that is not empty and otherwise the variable
\* of the environment; the constructor throws exactly when no config is
\* given and a variable is unset or empty, or a config is given and some
\* field resolves to empty, and its message lists exactly the unset or empty
\* variables, each once, in the order URL, VERSION, TOKEN.
C22_ConstructionResolves ==
  made # "no" =>
    LET mustThrow ==
          IF config = NoConfig THEN EmptyVars # {}
          ELSE \E f \in DOMAIN VarOfField : ResolvesTo(f) = ""
    IN /\ made = "threw" <=> mustThrow
       /\ made = "threw" =>
            /\ {missing[i] : i \in DOMAIN missing} = EmptyVars
            /\ Len(missing) = Cardinality(EmptyVars)
            /\ \A i, j \in DOMAIN missing :
                 i < j =>
                   \E m, n \in DOMAIN requiredEnvVars :
                     /\ m < n
                     /\ requiredEnvVars[m] = missing[i]
                     /\ requiredEnvVars[n] = missing[j]
       /\ made = "yes" =>
            \A f \in DOMAIN VarOfField :
              client[f] = ResolvesTo(f) /\ client[f] # ""

\* The constructor was given a config with an apiUrl and an empty
\* authToken, in an environment with the version only: it threw, naming the
\* URL and the token variables.
C22_Witness ==
  /\ made = "threw"
  /\ config # NoConfig
  /\ config[1].apiUrl = Some("cfg")
  /\ config[1].apiVersion = None
  /\ config[1].authToken = Some("")
  /\ env["GENESISDB_API_VERSION"] = Some("env")
  /\ env["GENESISDB_AUTH_TOKEN"] = Some("")
  /\ missing = <<"GENESISDB_API_URL", "GENESISDB_AUTH_TOKEN">>

\* C23: the body of the request of streamEvents and of observeEvents has
\* the subject given and nothing else but, when an options argument is
\* passed, an options member with exactly the members of the argument (a
\* member given as undefined counts as not given) and their values; without
\* an options argument the body has no options member.
C23_OptionsForwarded ==
  (call # NoCall /\ call[1].op \in {"streamEvents", "observeEvents"}) =>
    LET body == request[1].body[1]
        arg == call[1].options
    IN /\ body.subject = call[1].subject
       /\ DOMAIN body \subseteq {"subject", "options"}
       /\ arg = None <=> "options" \notin DOMAIN body
       /\ arg # None =>
            \A f \in DOMAIN arg[1] \cup DOMAIN body.options :
              /\ f \in DOMAIN body.options <=>
                   (f \in DOMAIN arg[1] /\ arg[1][f] # Undefined)
              /\ f \in DOMAIN body.options => body.options[f] = arg[1][f]

\* observeEvents was given options whose only member is false: it was sent
\* as given.
C23_Witness ==
  /\ call # NoCall
  /\ call[1].op = "observeEvents"
  /\ call[1].options = Some([includeLowerBoundEvent |-> "false"])
  /\ request[1].body[1].options = [includeLowerBoundEvent |-> "false"]

\* C24: the events member of the request of commitEvents has one element
\* for each event given, in the order given; each has exactly the members
\* source, subject, type and data of the event, with their values, and an
\* options member, equal to that of the event, exactly when the event has
\* one.
C24_EventsProjected ==
  (call # NoCall /\ call[1].op = "commitEvents") =>
    LET sent == request[1].body[1].events
        given == call[1].events
    IN /\ Len(sent) = Len(given)
       /\ \A i \in DOMAIN given :
            /\ DOMAIN sent[i] =
                 {"source", "subject", "type", "data"} \cup
                   (DOMAIN given[i] \cap {"options"})
            /\ \A f \in DOMAIN sent[i] : sent[i][f] = given[i][f]

\* Two events were given, the first with an id and the second with
\* options: they were sent in that order, the first without its id and the
\* second with its options.
C24_Witness ==
  /\ call # NoCall
  /\ call[1].op = "commitEvents"
  /\ Len(call[1].events) = 2
  /\ "id" \in DOMAIN call[1].events[1]
  /\ "options" \in DOMAIN call[1].events[2]
  /\ request[1].body[1].events =
       <<[source |-> "src", subject |-> "/c", type |-> "updated",
          data |-> "C"],
         [source |-> "src", subject |-> "/b", type |-> "added", data |-> "B",
          options |-> [storeDataAsReference |-> "true"]]>>

\* C25: the request of commitEvents has a preconditions member exactly when
\* a preconditions list with at least one element is given, and the member
\* is that list: the same elements in the same order.
C25_PreconditionsForwarded ==
  (call # NoCall /\ call[1].op = "commitEvents") =>
    LET body == request[1].body[1]
        arg == call[1].preconditions
    IN /\ DOMAIN body \subseteq {"events", "preconditions"}
       /\ "preconditions" \in DOMAIN body <=> (arg # None /\ arg[1] # <<>>)
       /\ "preconditions" \in DOMAIN body => body.preconditions = arg[1]

\* Two preconditions were given and sent in the order given.
C25_Witness ==
  /\ call # NoCall
  /\ call[1].op = "commitEvents"
  /\ call[1].preconditions = Some(<<Pre2, Pre1>>)
  /\ request[1].body[1].preconditions = <<Pre2, Pre1>>

\* C26: queryEvents(query) sends the request q(query) sends and, on every
\* response, ends as q(query) ends: with the same list or the same error.
C26_QueryEventsIsQ ==
  (call # NoCall /\ call[1].op = "queryEvents") =>
    /\ request = Fetch(client, "q", "POST", Some([query |-> call[1].query]))
    /\ answer # NoAnswer =>
         /\ response # NoResponse
         /\ answer = Answer("q", response[1])

\* C27: the list q returns holds, for every newline-terminated line of the
\* body that is not blank and parses, in body order, the parsed value
\* itself: no attribute is added and a value that is no valid Event
\* envelope is returned like any other.
C27_QueryReturnsRawValues ==
  (op = "q" /\ outcome = "returned") =>
    LET good == SelectSeq(TerminatedLines(wire),
                          LAMBDA l : trim(l) # <<>> /\ JSONParse(trim(l)).ok)
    IN results = [i \in DOMAIN good |-> JSONParse(trim(good[i])).members]

\* q returned three values in body order, the second of them an object
\* without source and type.
C27_Witness ==
  /\ op = "q"
  /\ outcome = "returned"
  /\ TerminatedLines(wire) = <<Ev1, NotEventText, Ev2>>
  /\ results = <<Members("1"), Members("j"), Members("2")>>
  /\ ~CloudEventValid(results[2])

\* C28: once streamEvents or q waits for a read of the body, the call
\* returns its list; once observeEvents waits for a read, the generator
\* ends, and it ends by completing at the end of the source unless a read
\* has failed or the consumer has stopped it.
C28_ReadPathsTerminate ==
  /\ (op \in Bulk /\ pc = "awaitRead") ~> (pc = "done" /\ outcome = "returned")
  /\ (op = "observeEvents" /\ pc = "awaitRead") ~>
       \/ pc = "done" /\ outcome = "completed"
       \/ pc = "done" /\ error = "read failed"

\* An observation has completed at the end of a source of three lines,
\* after two yields.
C28_Witness ==
  /\ op = "observeEvents"
  /\ RanToEnd
  /\ remaining = <<>>
  /\ Len(lines) = 3
  /\ Len(events) = 2

\* C29: in observeEvents at most one read of the source is outstanding; none
\* is outstanding while the generator is suspended at a yield; and a read is
\* outstanding only when the generator runs for a consumer's request, the
\* buffer holds no complete line and every event of the lines received so
\* far has been yielded.
C29_NoReadAhead ==
  op = "observeEvents" =>
    /\ pending \in {0, 1}
    /\ pc \in {"suspendedStart", "suspendedYield", "done"} => pending = 0
    /\ pending = 1 =>
         /\ pc = "awaitRead"
         /\ indexOf(buffer, NL) < 0
         /\ events = CollectOutputs("observeEvents", TerminatedLines(Fed))

\* The generator is suspended at the yield of the first event while the
\* second record is already in the buffer and the source has more to
\* deliver: no read has been requested.
C29_Witness ==
  /\ op = "observeEvents"
  /\ pc = "suspendedYield"
  /\ Len(events) = 1
  /\ indexOf(buffer, NL) >= 0
  /\ remaining # <<>>
  /\ pending = 0

\* The text the extraction loop has been fed: in streamEvents and q the whole
\* body once the one chunk of the in-memory stream has been read, nothing
\* before; in observeEvents what the source has delivered.
FedSoFar == IF op \in Bulk /\ ~reading THEN <<>> ELSE Fed

\* C30: in streamEvents, q and observeEvents the lines cut off so far, each
\* with its newline, followed by the buffer are exactly the text fed so far;
\* and whenever the extraction loop has finished with a fragment (the call
\* waits for the next read, or has ended other than by the consumer stopping
\* the generator at a yield) the buffer holds no newline and is the text
\* received after the last newline.
C30_BufferInvariant ==
  (op \in Bulk \cup {"observeEvents"}) =>
    /\ JoinLines(lines) \o buffer = FedSoFar
    /\ (pc = "awaitRead" \/ (pc = "done" /\ ~stopped)) =>
         /\ indexOf(buffer, NL) < 0
         /\ buffer = Unterminated(FedSoFar)

\* Two fragments of an observed body have been processed: the first ended
\* inside a record, the second completed it and began the next one, whose
\* start is what the buffer retains.
C30_Witness ==
  /\ op = "observeEvents"
  /\ pc = "awaitRead"
  /\ Len(lines) = 2
  /\ buffer # <<>>
  /\ remaining # <<>>
  /\ JoinLines(lines) \o buffer = Fed
  /\ Unterminated(Fed) = buffer

\* The value JSON.parse gives for a raw line, after trimming and removal of
\* the 'data: ' framing.
ValueOf(l) == JSONParse(StripPrefix(trim(l)))

\* The lines observeEvents has taken that parse to an object with exactly
\* one member, and that member an empty string.
SingleEmptyLines ==
  Count(lines, LAMBDA l :
    /\ trim(l) # <<>>
    /\ ValueOf(l).ok
    /\ Cardinality(DOMAIN ValueOf(l).members) = 1
    /\ \A k \in DOMAIN ValueOf(l).members : ValueOf(l).members[k] = "")

\* The lines observeEvents has taken that parse to the object whose only
\* member is payload, holding an empty string.
PayloadOnlyLines ==
  Count(lines, LAMBDA l :
    trim(l) # <<>> /\ ValueOf(l).ok /\ ValueOf(l).members = KeepAliveValue)

\* The records observeEvents has dropped without a trace: non-blank lines
\* taken that led neither to a yielded event nor to a reported failure.
SilentlyDropped ==
  Count(lines, LAMBDA l : trim(l) # <<>>) - Len(events) - reported

PlainContent(text) ==
  \A i \in DOMAIN TerminatedLines(text) :
    LET t == trim(TerminatedLines(text)[i])
    IN /\ ~IsPrefix(<<"d", "a", "t", "a", ":", " ">>, t)
       /\ t # KeepAliveText

\* C32: for a content without 'data: ' framing and without keep-alive
\* records, an observation consumed to the end, however the content was cut
\* into fragments, has yielded the list streamEvents returns for that
\* content as a body; and streamEvents has returned the sequence an
\* observation of that content yields.
C32_BulkAndIncrementalAgree ==
  /\ (op = "observeEvents" /\ RanToEnd /\ PlainContent(wire)) =>
       events = BulkWhole("streamEvents", wire)
  /\ (op = "streamEvents" /\ outcome = "returned" /\ PlainContent(wire)) =>
       events = ObserveWhole(build, Feed(<<>>, wire), <<>>, <<>>).events

\* An observation ran to the end over two event records with a record that
\* is no event between them, and yielded the two events streamEvents
\* returns for that body.
C32_Witness ==
  /\ op = "observeEvents"
  /\ RanToEnd
  /\ wire = Ev1 \o <<NL>> \o NotEventText \o <<NL>> \o Ev2 \o <<NL>>
  /\ Len(events) = 2
  /\ events = BulkWhole("streamEvents", wire)

\* C33: once the Client is constructed, no step of any call on it, ending
\* well or with an error, and no passing from one call to the next, changes
\* apiUrl, apiVersion or authToken.
C33_ConfigurationFrozen == [][made = "yes" => client' = client]_vars

\* On an instance built from a config, a first call has ended and the second
\* has failed with an API error; the fields are those of the config.
C33_Witness ==
  /\ made = "yes"
  /\ finished = 1
  /\ answer # NoAnswer
  /\ answer[1].kind = "error"
  /\ response # NoResponse
  /\ response[1].settled = "failed"
  /\ client = [apiUrl |-> "cfg", apiVersion |-> "cfg", authToken |-> "cfg"]

\* C34: the step that calls observeEvents sends no request and leaves the
\* generator suspended at its start; the one step of an observation that
\* sends the request is the consumer's request for the first element; and a
\* generator suspended at its start stays there, with no request sent and no
\* response, until the consumer asks for an element or stops it, in which
\* case it ends without a request.
C34_ObservationIsLazy ==
  [][/\ (op = "none" /\ op' = "observeEvents") =>
          requests' = 0 /\ pc' = "suspendedStart" /\ status' = "none"
     /\ (op' = "observeEvents" /\ requests' # requests) =>
          /\ pc = "suspendedStart" /\ pc' = "awaitFetch"
          /\ requests = 0 /\ requests' = 1
     /\ (op = "observeEvents" /\ pc = "suspendedStart" /\ pc' # "awaitFetch") =>
          /\ requests' = 0 /\ status' = "none" /\ events' = <<>>
          /\ pc' = "suspendedStart" \/ (pc' = "done" /\ stopped')]_vars

\* observeEvents has been called and no element asked for: the generator is
\* suspended at its start and nothing has been sent.
C34_Witness ==
  /\ op = "observeEvents"
  /\ pc = "suspendedStart"
  /\ requests = 0
  /\ status = "none"
  /\ ~stopped

\* C35: when the consumer throws an exception into the generator suspended
\* at a yield, the generator does not end and no error reaches the caller:
\* the failure is reported, the loop goes on with the text in the buffer,
\* skipping nothing, and the events already yielded stand; an observation
\* that then runs to the end has yielded the event of every line.
C35_InjectedExceptionCaught ==
  /\ [][(injected' # injected /\ pc = "suspendedYield") =>
          /\ pc' \in {"suspendedYield", "awaitRead"}
          /\ outcome' = "pending"
          /\ error' = ""
          /\ reported' >= reported + 1
          /\ JoinLines(lines') \o buffer' = JoinLines(lines) \o buffer
          /\ IsPrefix(events, events')]_vars
  /\ []((op = "observeEvents" /\ RanToEnd) =>
          events = CollectOutputs("observeEvents", TerminatedLines(wire)))

\* The consumer threw into the generator at the yield of the first of two
\* events: the failure was reported, the second event was yielded and the
\* observation ran to the end.
C35_Witness ==
  /\ op = "observeEvents"
  /\ injected = 1
  /\ RanToEnd
  /\ wire = Ev1 \o <<NL>> \o Ev2 \o <<NL>>
  /\ Len(events) = 2
  /\ reported = 1

\* C36: every constructed Client has non-empty apiUrl, apiVersion and
\* authToken; and the constructor given a config never runs its assignments
\* from the environment: whenever a field resolves to empty the constructor
\* has thrown, and otherwise the fields are those resolved from the config.
C36_FallbackNeverRuns ==
  /\ made = "yes" => \A f \in DOMAIN client : client[f] # ""
  /\ assigned # "fallback"
  /\ (made # "no" /\ config # NoConfig) =>
       IF \E f \in DOMAIN VarOfField : ResolvesTo(f) = ""
       THEN made = "threw" /\ assigned = "none" /\ missing # <<>>
       ELSE made = "yes" /\ assigned = "config"
  /\ (made = "yes" /\ config = NoConfig) => assigned = "env"

\* The constructor was given a config without a token in an environment that
\* has the URL and the version but an empty token: the token resolves to
\* empty and the constructor threw before the assignments from the
\* environment.
C36_Witness ==
  /\ made = "threw"
  /\ config = Some([apiUrl |-> Some("cfg"), apiVersion |-> Some("cfg"),
                    authToken |-> None])
  /\ env["GENESISDB_API_URL"] = Some("env")
  /\ env["GENESISDB_API_VERSION"] = Some("env")
  /\ env["GENESISDB_AUTH_TOKEN"] = Some("")
  /\ assigned = "none"
  /\ missing = <<"GENESISDB_AUTH_TOKEN">>

\* The characters a record may be padded with: space, tab, carriage return.
Padding == {" ", "\t", "\r"}

RECURSIVE DropLeading(_)
DropLeading(l) ==
  IF l # <<>> /\ Head(l) \in Padding THEN DropLeading(Tail(l)) ELSE l

RECURSIVE DropTrailing(_)
DropTrailing(l) ==
  IF l # <<>> /\ l[Len(l)] \in Padding
  THEN DropTrailing(SubSeq(l, 1, Len(l) - 1))
  ELSE l

\* The text with the padding taken off both ends of every line, each line
\* ending with a bare newline.
BareText(text) ==
  LET ls == TerminatedLines(text)
  IN JoinLines([k \in DOMAIN ls |-> DropTrailing(DropLeading(ls[k]))])
       \o Unterminated(text)

\* C37: streamEvents and q return, and an observation consumed to the end
\* has yielded, what they deliver for the body in which every line is
\* stripped of leading and trailing spaces, tabs and carriage returns and
\* ends with a bare newline.
C37_TrimNormalizes ==
  /\ (op \in Bulk /\ outcome = "returned") =>
       Delivered = BulkWhole(op, BareText(wire))
  /\ (op = "observeEvents" /\ RanToEnd) =>
       events =
         ObserveWhole(build, Feed(<<>>, BareText(wire)), <<>>, <<>>).events

\* An observation ran to the end over a framed record with a space before
\* and after it, and yielded its event.
C37_Witness ==
  /\ op = "observeEvents"
  /\ RanToEnd
  /\ wire = <<" ">> \o SseEv1 \o <<" ", NL>>
  /\ BareText(wire) = SseEv1 \o <<NL>>
  /\ Len(events) = 1

====
